---- MODULE Spec2Model ----
(***************************************************************************)
(* waypointjs: the waypoint store (WaypointRepository), the undo/redo log  *)
(* (HistoryManagerImpl) and the coordinator (RoutePlanner) with its        *)
(* asynchronous route calculation, as a state machine.                     *)
(*                                                                         *)
(* Eight specifications share the variables:                               *)
(*   SpecRepo     the WaypointRepository driven directly, any arguments    *)
(*   SpecHistory  the HistoryManagerImpl driven directly                   *)
(*   SpecBus      the EventBusImpl driven directly, with listeners that    *)
(*                return, throw or emit the event again                    *)
(*   SpecAdds     a RoutePlanner given awaited addWaypoint calls only      *)
(*   SpecGeo      one off-route or remaining-distance query, on points and *)
(*                lines of one meridian, under every rounding of the       *)
(*                arithmetic                                               *)
(*   SpecCalc     the RouteCalculatorAdapter driven directly               *)
(*   Spec         the RoutePlanner under every option setting: its public  *)
(*                operations, subscriptions included, the answers to the   *)
(*                calculator calls it has in flight, in any order, and its *)
(*                resuming after each answer                               *)
(*   SpecLive     Spec with a directions source that settles every request *)
(***************************************************************************)
EXTENDS Integers, Sequences, FiniteSets

VARIABLES
    waypoints,        \* WaypointRepository.waypoints: the live array's content
    nextId,           \* the next identifier generateId() hands out
    history,          \* HistoryManagerImpl.history
    currentIndex,     \* HistoryManagerImpl.currentIndex
    maxSize,          \* HistoryManagerImpl.maxSize (options.maxHistorySize)
    autoRecalculate,  \* options.autoRecalculate
    currentRoute,     \* RoutePlanner.currentRoute
    currentStats,     \* RoutePlanner.currentStats
    calculating,      \* RoutePlanner.calculating
    disposed,         \* RoutePlanner.disposed
    pending,          \* calculator.calculate calls the planner still awaits, in start
                      \* order, each with the source's answer once it has come
    calcSeq,          \* number of calculator.calculate calls started so far
    emitted,          \* observer: events passed to events.emit by the last step, in order
    lastCall,         \* observer: the last public call that did something
    step,             \* observer: the last step, a public call or a settling (with what
                      \* the listeners of its completion events see through the queries)
    run,              \* observer: successful mutations in a row since construction
    calls,            \* observer: public calls that did something, so far
    calculatedTotal,  \* observer: route:calculated events emitted since construction
    pushLog,          \* observer (SpecHistory): every entry pushed since construction
    hPhase,           \* observer (SpecHistory): "push" | "undo" | "mixed"
    hRet,             \* observer (SpecHistory): what the last undo()/redo() returned
    listeners,        \* EventBusImpl.listeners: the Set of SpecBus's one event, and in
                      \* Spec the Sets of the planner's bus, each in insertion order
    onceLog,          \* observer: per once() call, its listener and its invocations
    cancelled,        \* observer: once() calls unsubscribed before any invocation
    invoked,          \* observer (SpecBus): the invocations the last call made, in order
    emitThrew,        \* observer (SpecBus): whether the last call was an emit that threw
    busCall,          \* observer (SpecBus): the last call made on the bus
    probe,            \* SpecGeo: the arguments of the call made last and how its
                      \* arithmetic rounded; SpecCalc: the caller's arrays and the
                      \* calculate calls in flight
    answer,           \* SpecGeo, SpecCalc: what the call that returned last returned
    repoCall          \* observer (SpecRepo): the last call made on the repository, and
                      \* whether it returned something other than null or false

vars == <<waypoints, nextId, history, currentIndex, maxSize, autoRecalculate,
          currentRoute, currentStats, calculating, disposed, pending, calcSeq,
          emitted, lastCall, step, run, calls, calculatedTotal, pushLog, hPhase, hRet,
          listeners, onceLog, cancelled, invoked, emitThrew, busCall, probe, answer,
          repoCall>>

repoVars == <<waypoints, nextId>>
historyVars == <<history, currentIndex>>
optionVars == <<maxSize, autoRecalculate>>
routeVars == <<currentRoute, currentStats, calculating, pending, calcSeq>>
plannerObs == <<emitted, lastCall, step, run, calls, calculatedTotal>>
historyObs == <<pushLog, hPhase, hRet>>
busVars == <<listeners, onceLog, cancelled, invoked, emitThrew, busCall>>
repoObs == <<repoCall>>
geoVars == <<probe, answer>>

(***************************************************************************)
(* Bounds of the model.                                                    *)
(***************************************************************************)
\* identifiers generateId() may hand out (waypoints ever created by a planner)
MaxIds == 2
\* waypoints ever created in a directly driven WaypointRepository
MaxRepoIds == 3
\* largest maxHistorySize option explored
MaxHistorySize == 2
\* public calls that do something, over one run of a planner
MaxCalls == 4
\* calculator.calculate calls started over one run
MaxCalcs == 2
\* calculator.calculate calls in flight at once
MaxPending == 2
\* addWaypoint calls made one after the other, each awaited
MaxAdds == 3
\* once() calls made on a directly driven EventBusImpl
MaxOnce == 3
\* emits nested inside one another before the call stack is exhausted
MaxDepth == 3
\* pushes made on a directly driven HistoryManagerImpl
MaxPushes == 4
\* once() calls made on one planner
MaxPlannerOnce == 1
\* arrays the caller of a directly driven RouteCalculatorAdapter creates
MaxCalcArrays == 2
\* waypoints in one of those arrays
MaxCalcLength == 3
\* calculate calls in flight at once on a directly driven RouteCalculatorAdapter
MaxCalcCalls == 2

(***************************************************************************)
(* Values.                                                                 *)
(***************************************************************************)
\* null / undefined
Null == [null |-> TRUE]

\* Coordinate: {longitude, latitude}
Coords == {[longitude |-> 0, latitude |-> 0], [longitude |-> 1, latitude |-> 1]}

\* the optional name given to add/insert
Names == {"stop"}

\* Date.now(), one instant
Now == [ms |-> 0]

Min(a, b) == IF a < b THEN a ELSE b
Max(a, b) == IF a > b THEN a ELSE b

\* what content-equality of two waypoint lists compares: ids, coordinates, order
Content(wps) ==
    [i \in 1..Len(wps) |->
        [id |-> wps[i].id, longitude |-> wps[i].longitude, latitude |-> wps[i].latitude]]

(***************************************************************************)
(* The initial state: a RoutePlanner just constructed (empty repository,   *)
(* empty history, no route).                                               *)
(***************************************************************************)
NoCall ==
    [op |-> "none", ok |-> FALSE, miss |-> FALSE, recalc |-> FALSE,
     before |-> <<>>, atNewest |-> TRUE]

NoStep == [kind |-> "none"]

\* new RoutePlanner(source, {maxHistorySize: size, autoRecalculate: auto})
Constructed(size, auto) ==
    /\ waypoints = <<>>
    /\ nextId = 1
    /\ history = <<>>
    /\ currentIndex = -1
    /\ maxSize = size
    /\ autoRecalculate = auto
    /\ currentRoute = Null
    /\ currentStats = Null
    /\ calculating = FALSE
    /\ disposed = FALSE
    /\ pending = <<>>
    /\ calcSeq = 0
    /\ emitted = <<>>
    /\ lastCall = NoCall
    /\ step = NoStep
    /\ run = [counting |-> TRUE, n |-> 0]
    /\ calls = 0
    /\ calculatedTotal = 0
    /\ pushLog = <<>>
    /\ hPhase = "push"
    /\ hRet = Null
    /\ listeners = <<>>
    /\ onceLog = <<>>
    /\ cancelled = {}
    /\ invoked = <<>>
    /\ emitThrew = FALSE
    /\ busCall = "none"
    /\ repoCall = [op |-> "none", ok |-> TRUE]
    /\ probe = Null
    /\ answer = Null

\* every option setting explored: maxHistorySize 0..MaxHistorySize, autoRecalculate
\* on and off
Init == \E size \in 0..MaxHistorySize, auto \in BOOLEAN : Constructed(size, auto)

(***************************************************************************)
(* WaypointRepository (src/src/infrastructure/WaypointRepository.ts).      *)
(* Each operation is an operator from the array's content to its new       *)
(* content; lists are 1-based here, the code's indices are 0-based.        *)
(***************************************************************************)
\* the object literal built by add and insert
NewWaypoint(id, index, coordinate, name) ==
    [id |-> id, index |-> index,
     longitude |-> coordinate.longitude, latitude |-> coordinate.latitude,
     name |-> name, createdAt |-> Now]

\* Array.prototype.findIndex((wp) => wp.id === id): 0-based, -1 when absent
findIndex(wps, id) ==
    IF \E i \in 1..Len(wps) : wps[i].id = id
        THEN (CHOOSE i \in 1..Len(wps) :
                 wps[i].id = id /\ \A j \in 1..(i - 1) : wps[j].id # id) - 1
        ELSE -1

\* getById: the first waypoint with that id, or null
getById(wps, id) ==
    IF findIndex(wps, id) = -1 THEN Null ELSE wps[findIndex(wps, id) + 1]

\* splice(at, 0, wp) for 0 <= at <= length
spliceIn(wps, at, wp) ==
    [i \in 1..(Len(wps) + 1) |->
        IF i <= at THEN wps[i] ELSE IF i = at + 1 THEN wp ELSE wps[i - 1]]

\* splice(at, 1) for 0 <= at < length
spliceOut(wps, at) ==
    [i \in 1..(Len(wps) - 1) |-> IF i <= at THEN wps[i] ELSE wps[i + 1]]

reindexSkipped(wps) == wps

\* reindex(): a new array of copies, each with index = its position
reindex(wps) ==
    [i \in 1..Len(wps) |-> [wps[i] EXCEPT !.index = i - 1]]

\* add: push in place, index = the length before the push; no reindex pass
add(wps, id, coordinate, name) ==
    Append(wps, NewWaypoint(id, Len(wps), coordinate, name))

clampBelowLength(index, length) == Max(0, Min(index, length - 1))

\* insert's clampedIndex
clampIndex(index, length) == Max(0, Min(index, length))

\* insert, the in-place part: the array after splice(clampedIndex, 0, waypoint)
insertSpliced(wps, id, coordinate, index, name) ==
    spliceIn(wps, clampIndex(index, Len(wps)),
             NewWaypoint(id, clampIndex(index, Len(wps)), coordinate, name))

\* insert: splice, then reindex
insert(wps, id, coordinate, index, name) ==
    reindex(insertSpliced(wps, id, coordinate, index, name))

\* insert returns the object it built, whose index is the clamped one
insertReturns(wps, id, coordinate, index, name) ==
    NewWaypoint(id, clampIndex(index, Len(wps)), coordinate, name)

removeSplicedLast(wps, id) ==
    IF findIndex(wps, id) = -1 THEN wps ELSE SubSeq(wps, 1, Len(wps) - 1)

\* remove, the in-place part: the array after splice(index, 1)
removeSpliced(wps, id) ==
    IF findIndex(wps, id) = -1 THEN wps ELSE spliceOut(wps, findIndex(wps, id))

\* remove returns null for an unknown id, else the element splice took out
removeReturns(wps, id) ==
    IF findIndex(wps, id) = -1 THEN Null ELSE wps[findIndex(wps, id) + 1]

\* remove: null (nothing changes) for an unknown id, else splice and reindex
remove(wps, id) ==
    IF findIndex(wps, id) = -1 THEN wps ELSE reindex(removeSpliced(wps, id))

\* update: the element at the id's position replaced by a copy with the new coordinate
update(wps, id, coordinate) ==
    IF findIndex(wps, id) = -1
        THEN wps
        ELSE [wps EXCEPT ![findIndex(wps, id) + 1] =
                 [@ EXCEPT !.longitude = coordinate.longitude,
                           !.latitude = coordinate.latitude]]

\* update returns null for an unknown id, else the coordinate the element had
updateReturns(wps, id) ==
    IF findIndex(wps, id) = -1
        THEN Null
        ELSE [longitude |-> wps[findIndex(wps, id) + 1].longitude,
              latitude |-> wps[findIndex(wps, id) + 1].latitude]

\* reorder's range check
reorderOk(wps, fromIndex, toIndex) ==
    ~(fromIndex < 0 \/ fromIndex >= Len(wps) \/ toIndex < 0 \/ toIndex >= Len(wps))

reorderSplicedShifted(wps, fromIndex, toIndex) ==
    IF reorderOk(wps, fromIndex, toIndex)
        THEN spliceIn(spliceOut(wps, fromIndex),
                      IF fromIndex < toIndex THEN toIndex - 1 ELSE toIndex, wps[fromIndex + 1])
        ELSE wps

\* reorder, the in-place part: splice(fromIndex, 1) then splice(toIndex, 0, waypoint)
reorderSpliced(wps, fromIndex, toIndex) ==
    IF reorderOk(wps, fromIndex, toIndex)
        THEN spliceIn(spliceOut(wps, fromIndex), toIndex, wps[fromIndex + 1])
        ELSE wps

\* reorder: false (nothing changes) out of range, else the two splices and reindex
reorder(wps, fromIndex, toIndex) ==
    IF reorderOk(wps, fromIndex, toIndex)
        THEN reindex(reorderSpliced(wps, fromIndex, toIndex))
        ELSE wps

\* setAll: a new array of copies of the given waypoints, each with index = position
setAll(given) ==
    [i \in 1..Len(given) |-> [given[i] EXCEPT !.index = i - 1]]

(***************************************************************************)
(* HistoryManagerImpl (src/unnamed/part_006, lines 9-66).  An entry holds  *)
(* copies of the waypoints and the action; its timestamp (Date.now()) is   *)
(* read by nothing and is left out.                                        *)
(***************************************************************************)
\* Array.prototype.slice(start): from start, counted from the end when negative
sliceFrom(h, start) ==
    SubSeq(h, (IF start < 0 THEN Max(Len(h) + start, 0) ELSE Min(start, Len(h))) + 1, Len(h))

HistoryEntryShared(wps, action) ==
    [waypoints |-> wps, action |-> action, live |-> TRUE]

\* the entry push() appends: waypoints.map((wp) => ({ ...wp })) and the action.  The
\* map gives the entry an array and objects of its own: it is not live, that is, it
\* does not hold the repository's array
HistoryEntry(wps, action) ==
    [waypoints |-> [i \in 1..Len(wps) |-> wps[i]], action |-> action, live |-> FALSE]

trimKeepsOldest(h, max) ==
    IF Len(h) > max THEN SubSeq(h, 1, max) ELSE h

\* push's "Trim to max size": slice(-maxSize) when longer than maxSize
trim(h, max) ==
    IF Len(h) > max THEN sliceFrom(h, 0 - max) ELSE h

pushKeepsRedoTail(h, index, max, wps, action) ==
    trim(Append(h, HistoryEntry(wps, action)), max)

\* push: the history after slice(0, currentIndex + 1), the append and the trim
push(h, index, max, wps, action) ==
    trim(Append(SubSeq(h, 1, index + 1), HistoryEntry(wps, action)), max)

pushIndexPastEnd(h) == Len(h)

\* push's last line: currentIndex = history.length - 1
pushIndex(h) == Len(h) - 1

canUndo(index) == index > 0

canRedo(h, index) == index < Len(h) - 1

getSize(h) == Len(h)

\* undo(): the cursor afterwards
undoIndex(index) == IF canUndo(index) THEN index - 1 ELSE index

\* undo(): the entry returned, or null
undoEntry(h, index) == IF canUndo(index) THEN h[(index - 1) + 1] ELSE Null

\* redo(): the cursor afterwards
redoIndex(h, index) == IF canRedo(h, index) THEN index + 1 ELSE index

\* redo(): the entry returned, or null
redoEntry(h, index) == IF canRedo(h, index) THEN h[(index + 1) + 1] ELSE Null

(***************************************************************************)
(* SpecHistory: a HistoryManagerImpl with maxSize >= 1 driven directly.    *)
(***************************************************************************)
\* waypoint lists handed to push directly
PushArgs ==
    { <<>>,
      <<NewWaypoint(1, 0, [longitude |-> 0, latitude |-> 0], "stop")>> }

\* action tags handed to push directly
PushActions == {"add", "clear"}

HistoryFrame ==
    UNCHANGED <<repoVars, optionVars, routeVars, disposed, plannerObs, busVars, repoObs,
                geoVars>>

HistPush ==
    /\ Len(pushLog) < MaxPushes
    /\ \E wps \in PushArgs, a \in PushActions :
        /\ history' = push(history, currentIndex, maxSize, wps, a)
        /\ pushLog' = Append(pushLog, HistoryEntry(wps, a))
    /\ currentIndex' = pushIndex(history')
    /\ hPhase' = IF hPhase = "push" THEN "push" ELSE "mixed"
    /\ hRet' = Null
    /\ HistoryFrame

HistUndo ==
    /\ currentIndex' = undoIndex(currentIndex)
    /\ hRet' = undoEntry(history, currentIndex)
    /\ hPhase' = IF hPhase \in {"push", "undo"} THEN "undo" ELSE "mixed"
    /\ UNCHANGED <<history, pushLog>>
    /\ HistoryFrame

HistRedo ==
    /\ currentIndex' = redoIndex(history, currentIndex)
    /\ hRet' = redoEntry(history, currentIndex)
    /\ hPhase' = "mixed"
    /\ UNCHANGED <<history, pushLog>>
    /\ HistoryFrame

HistClear ==
    /\ history' = <<>>
    /\ currentIndex' = -1
    /\ hPhase' = "mixed"
    /\ hRet' = Null
    /\ UNCHANGED pushLog
    /\ HistoryFrame

NextHistory ==
    \/ HistPush
    \/ HistUndo
    \/ HistRedo
    \/ HistClear

\* the class is used with maxSize >= 1 here; the other option plays no part
InitHistory == \E size \in 1..MaxHistorySize : Constructed(size, TRUE)

SpecHistory == InitHistory /\ [][NextHistory]_vars

\* the last n elements of a sequence (all of it when shorter)
LastN(s, n) == SubSeq(s, Max(Len(s) - n, 0) + 1, Len(s))

(***************************************************************************)
(* C5. Bounded history: for maxSize M >= 1, after pushing M + k entries    *)
(* (k >= 0, nothing but pushes) getSize() = M, the retained entries are    *)
(* the M most recently pushed, in push order, and the cursor is on the     *)
(* last one; undo() calls made from there never change the retained        *)
(* entries, return the entry just below the cursor while there is one,     *)
(* and at the oldest retained entry return null without moving the cursor. *)
(***************************************************************************)
C5_Retained ==
    (hPhase \in {"push", "undo"} /\ Len(pushLog) >= maxSize) =>
        /\ getSize(history) = maxSize
        /\ history = LastN(pushLog, maxSize)
        /\ currentIndex >= 0
        /\ hPhase = "push" => currentIndex = maxSize - 1

C5_UndoStops ==
    (hPhase' = "undo" /\ Len(pushLog) >= maxSize) =>
        IF currentIndex = 0
            THEN hRet' = Null /\ currentIndex' = 0
            ELSE hRet' = history[currentIndex] /\ currentIndex' = currentIndex - 1

\* C5: the M most recent pushes are retained in order, and undo() stops at the oldest
C5_BoundedHistory == []C5_Retained /\ [][C5_UndoStops]_vars

\* two entries were evicted, and undo() has walked down to the oldest retained
\* entry and been refused there
C5_Witness ==
    /\ hPhase = "undo"
    /\ maxSize >= 2
    /\ Len(pushLog) >= maxSize + 2
    /\ currentIndex = 0
    /\ hRet = Null
    /\ pushLog[1] # pushLog[Len(pushLog) - maxSize + 1]

(***************************************************************************)
(* SpecRepo: a WaypointRepository driven directly.                         *)
(***************************************************************************)
\* the arguments tried for an index parameter: in range, and below and above it
RepoIndexArgs == -1..MaxRepoIds

\* the arguments tried for an id parameter: every id handed out, and one never handed out
RepoIdArgs == 1..(MaxRepoIds + 1)

\* waypoint lists handed to setAll directly: any indices, as a caller may pass
SetAllArgs ==
    { <<>>,
      <<NewWaypoint(1, 7, [longitude |-> 0, latitude |-> 0], "stop")>>,
      <<NewWaypoint(2, 1, [longitude |-> 1, latitude |-> 1], "stop"),
        NewWaypoint(1, 1, [longitude |-> 0, latitude |-> 0], "stop")>> }

RepoFrame ==
    UNCHANGED <<historyVars, optionVars, routeVars, disposed, plannerObs, historyObs, busVars,
                geoVars>>

RepoAdd ==
    /\ nextId <= MaxRepoIds
    /\ \E c \in Coords, n \in Names :
        waypoints' = add(waypoints, nextId, c, n)
    /\ nextId' = nextId + 1
    /\ repoCall' = [op |-> "add", ok |-> TRUE]
    /\ RepoFrame

RepoInsert ==
    /\ nextId <= MaxRepoIds
    /\ \E c \in Coords, i \in RepoIndexArgs, n \in Names :
        /\ waypoints' = insert(waypoints, nextId, c, i, n)
        /\ repoCall' = [op |-> "insert",
                        ok |-> insertReturns(waypoints, nextId, c, i, n) # Null]
    /\ nextId' = nextId + 1
    /\ RepoFrame

RepoRemove ==
    /\ \E id \in RepoIdArgs :
        /\ waypoints' = remove(waypoints, id)
        /\ repoCall' = [op |-> "remove", ok |-> removeReturns(waypoints, id) # Null]
    /\ UNCHANGED nextId
    /\ RepoFrame

RepoUpdate ==
    /\ \E id \in RepoIdArgs, c \in Coords :
        /\ waypoints' = update(waypoints, id, c)
        /\ repoCall' = [op |-> "update", ok |-> updateReturns(waypoints, id) # Null]
    /\ UNCHANGED nextId
    /\ RepoFrame

RepoReorder ==
    /\ \E f \in RepoIndexArgs, t \in RepoIndexArgs :
        /\ waypoints' = reorder(waypoints, f, t)
        /\ repoCall' = [op |-> "reorder", ok |-> reorderOk(waypoints, f, t)]
    /\ UNCHANGED nextId
    /\ RepoFrame

RepoSetAll ==
    /\ \E given \in SetAllArgs : waypoints' = setAll(given)
    /\ repoCall' = [op |-> "setAll", ok |-> TRUE]
    /\ UNCHANGED nextId
    /\ RepoFrame

RepoClear ==
    /\ waypoints' = <<>>
    /\ repoCall' = [op |-> "clear", ok |-> TRUE]
    /\ UNCHANGED nextId
    /\ RepoFrame

NextRepo ==
    \/ RepoAdd
    \/ RepoInsert
    \/ RepoRemove
    \/ RepoUpdate
    \/ RepoReorder
    \/ RepoSetAll
    \/ RepoClear

\* the options play no part in the repository: one setting of them
InitRepo == Constructed(1, TRUE)

SpecRepo == InitRepo /\ [][NextRepo]_vars

(***************************************************************************)
(* RouteCalculatorAdapter (src/unnamed/part_005, lines 15-90) and the      *)
(* directions source behind it.                                            *)
(***************************************************************************)
(* The EventBusImpl (TypedEventEmitter has the same code), for one event.  *)
(* The Set of listeners is a sequence in insertion order.  A listener is   *)
(* known by what its body does: it returns, it throws, or it emits the     *)
(* same event again on the bus.  A listener given to on() that emits       *)
(* again would never return, so only listeners given to once() do that.    *)
(***************************************************************************)
\* the bodies of the listeners given to on() and to once()
PlainListeners == {"returns", "throws"}
OnceListeners == {"returns", "throws", "reemits"}

\* the events listeners are given to a planner for, and the bodies of those listeners
SubscribedEvents == {"waypoint:added", "route:calculated"}
PlannerListeners == {"returns"}

\* a member of the Set: the listener itself (wrapper = 0), or the onceWrapper the
\* k-th once() call created around it (wrapper = k)
ListenerEntry(fn, k) == [fn |-> fn, wrapper |-> k]

\* Set.has, Set.add, Set.delete
setHas(ls, entry) == \E i \in 1..Len(ls) : ls[i] = entry
setAdd(ls, entry) == IF setHas(ls, entry) THEN ls ELSE Append(ls, entry)
setDelete(ls, entry) == SelectSeq(ls, LAMBDA e : e # entry)

propagatesRethrown(threw) == threw

\* whether what a listener threw leaves emit's forEach: the try/catch around the
\* call logs it and goes on
propagates(threw) == FALSE

onceWrapperKeeps(ls, entry) == ls

\* the first statement of a onceWrapper: this.off(event, onceWrapper)
onceWrapperOff(ls, entry) == setDelete(ls, entry)

\* emit's forEach over the entries still to visit (an entry deleted before it is
\* reached is not visited), and the call of one entry.  st is the bus while emit
\* runs: the Set, the invocations so far, the once() log, and whether the call just
\* made threw.
RECURSIVE forEach(_, _, _)
RECURSIVE invoke(_, _, _)
forEach(todo, st, depth) ==
    IF todo = <<>>
        THEN st
        ELSE IF ~setHas(st.ls, Head(todo))
            THEN forEach(Tail(todo), st, depth)
            ELSE LET r == invoke(Head(todo), st, depth)
                 IN  IF propagates(r.threw)
                        THEN r
                        ELSE forEach(Tail(todo), [r EXCEPT !.threw = FALSE], depth)

invoke(entry, st, depth) ==
    LET called ==
            [st EXCEPT !.ls = IF entry.wrapper > 0 THEN onceWrapperOff(@, entry) ELSE @,
                       !.log = Append(@, [entry |-> entry, depth |-> depth]),
                       !.once = IF entry.wrapper > 0
                                    THEN [@ EXCEPT ![entry.wrapper].times = @ + 1]
                                    ELSE @]
    IN  CASE entry.fn = "returns" -> called
          [] entry.fn = "throws" -> [called EXCEPT !.threw = TRUE]
          [] entry.fn = "reemits" ->
                IF depth >= MaxDepth
                    THEN [called EXCEPT !.threw = TRUE]
                    ELSE forEach(called.ls, called, depth + 1)

\* emit(event, data): the bus when emit returns or throws
emit(ls, log) ==
    forEach(ls, [ls |-> ls, log |-> <<>>, once |-> log, threw |-> FALSE], 0)

(***************************************************************************)
(* SpecBus: the EventBusImpl driven directly.                              *)
(***************************************************************************)
BusFrame ==
    UNCHANGED <<repoVars, historyVars, optionVars, routeVars, disposed, plannerObs,
                historyObs, repoObs, geoVars>>

\* a call on the bus other than emit: it invokes no listener
BusCalled(name) ==
    /\ busCall' = name
    /\ invoked' = <<>>
    /\ emitThrew' = FALSE
    /\ BusFrame

\* on(event, listener)
BusOn ==
    /\ \E fn \in PlainListeners : listeners' = setAdd(listeners, ListenerEntry(fn, 0))
    /\ UNCHANGED <<onceLog, cancelled>>
    /\ BusCalled("on")

\* once(event, listener): a new onceWrapper is added
BusOnce ==
    /\ Len(onceLog) < MaxOnce
    /\ \E fn \in OnceListeners :
         /\ listeners' = setAdd(listeners, ListenerEntry(fn, Len(onceLog) + 1))
         /\ onceLog' = Append(onceLog, [fn |-> fn, times |-> 0])
    /\ UNCHANGED cancelled
    /\ BusCalled("once")

\* off(event, listener) with a listener given to on() or to once(): the listener
\* itself is deleted from the Set (a onceWrapper around it is another function)
BusOff ==
    /\ \E fn \in OnceListeners : listeners' = setDelete(listeners, ListenerEntry(fn, 0))
    /\ UNCHANGED <<onceLog, cancelled>>
    /\ BusCalled("off")

\* the unsubscribe handle once() returned for its k-th call: off(event, onceWrapper)
BusUnsubscribeOnce ==
    /\ \E k \in 1..Len(onceLog) :
         /\ listeners' = setDelete(listeners, ListenerEntry(onceLog[k].fn, k))
         /\ cancelled' = IF onceLog[k].times = 0 THEN cancelled \cup {k} ELSE cancelled
    /\ UNCHANGED onceLog
    /\ BusCalled("unsubscribe")

\* emit(event, data)
BusEmit ==
    /\ listeners' = emit(listeners, onceLog).ls
    /\ onceLog' = emit(listeners, onceLog).once
    /\ invoked' = emit(listeners, onceLog).log
    /\ emitThrew' = emit(listeners, onceLog).threw
    /\ busCall' = "emit"
    /\ UNCHANGED cancelled
    /\ BusFrame

\* removeAllListeners()
BusRemoveAll ==
    /\ listeners' = <<>>
    /\ UNCHANGED <<onceLog, cancelled>>
    /\ BusCalled("removeAllListeners")

NextBus ==
    \/ BusOn
    \/ BusOnce
    \/ BusOff
    \/ BusUnsubscribeOnce
    \/ BusEmit
    \/ BusRemoveAll

InitBus == Constructed(1, TRUE)

SpecBus == InitBus /\ [][NextBus]_vars

(***************************************************************************)
\* what the source may answer to a request it does not fail: one fixed route
Responses ==
    { [geometry |-> << <<0, 0>>, <<1, 1>> >>,
       distanceMeters |-> 1000, durationSeconds |-> 600, steps |-> <<>>] }

\* how a calculator call may settle: a response, null from the source, a rejection
Outcomes == {"ok", "null", "reject"}

RECURSIVE minOver(_, _, _), maxOver(_, _, _)
minOver(geometry, k, i) ==
    IF i > Len(geometry) THEN Null
    ELSE IF i = Len(geometry) THEN geometry[i][k]
    ELSE Min(geometry[i][k], minOver(geometry, k, i + 1))
maxOver(geometry, k, i) ==
    IF i > Len(geometry) THEN Null
    ELSE IF i = Len(geometry) THEN geometry[i][k]
    ELSE Max(geometry[i][k], maxOver(geometry, k, i + 1))

\* calculateBounds: [minLng, minLat, maxLng, maxLat], [0, 0, 0, 0] for no coordinates
calculateBounds(geometry) ==
    IF Len(geometry) = 0
        THEN <<0, 0, 0, 0>>
        ELSE <<minOver(geometry, 1, 1), minOver(geometry, 2, 1),
               maxOver(geometry, 1, 1), maxOver(geometry, 2, 1)>>

\* response.steps.map((step, index) => ({...})); the fresh step id is read by nothing
navigationSteps(response) ==
    [i \in 1..Len(response.steps) |->
        [index |-> i - 1,
         instruction |-> response.steps[i].instruction,
         maneuverType |-> response.steps[i].maneuverType,
         distanceMeters |-> response.steps[i].distanceMeters,
         durationSeconds |-> response.steps[i].durationSeconds,
         geometry |-> response.steps[i].geometry]]

\* the Route built after the await.  stamp is the object's identity (the number of
\* the calculate call that built it); waypoints is the array calculate was given,
\* as it is now, and live says that it still is the repository's own array
calculatedRoute(c, response) ==
    [stamp |-> c.stamp, geometry |-> response.geometry,
     waypoints |-> c.waypoints, live |-> c.live,
     steps |-> navigationSteps(response), bounds |-> calculateBounds(response.geometry)]

calculatedStatsMissing(c, response) == Null

\* the RouteStats built after the await: waypoints.length is read then; stamp is the
\* object's identity, as for the Route
calculatedStats(c, response) ==
    [stamp |-> c.stamp, distanceMeters |-> response.distanceMeters,
     durationSeconds |-> response.durationSeconds,
     waypointCount |-> Len(c.waypoints),
     stepCount |-> Len(navigationSteps(response))]

(***************************************************************************)
(* The geo functions behind the off-route and remaining-distance queries   *)
(* (src/unnamed/part_004, part_003 and calculateDistance, src/dist/        *)
(* index.mjs lines 151-160), on the points of one meridian.  Longitude is  *)
(* 0 everywhere, and a latitude is counted in the angle that spans one     *)
(* metre of the meridian: between two such points the haversine distance   *)
(* is the difference of the latitudes, in metres, and the planar           *)
(* projection onto a segment stays on the meridian.                        *)
(*                                                                         *)
(* The code computes in doubles, and the haversine formula, the division   *)
(* and the sums round.  A computed double is written [num, den, ulps]: the *)
(* real number num / den it lies at, and ulps, 0 when the double is the    *)
(* one that stands for that number, positive when it lies above it and     *)
(* negative when below; the doubles at one real number are ordered by      *)
(* ulps, which says no more than that order: it does not count doubles.    *)
(* A latitude carries its ulps beside its metres.  The latitudes,          *)
(* thresholds and fractions given to a call have ulps 0.                   *)
(*                                                                         *)
(* Which way an operation rounds depends on the doubles the latitudes are  *)
(* given as.  It is a parameter, fl, of every function: fl.haversine,      *)
(* fl.fraction, fl.projected, fl.partial and fl.sum give the ulps of each  *)
(* rounded result, by the operands of the operation, so that one           *)
(* computation made twice gives one double, and the distances to two       *)
(* doubles at one latitude round each in its own way.  What is exact in    *)
(* doubles is exact here: the distance between equal doubles is 0, a       *)
(* clamped fraction is 0 or 1, segStart + 0 * d is segStart, 0 + x is x,   *)
(* x * 1 is x, x * 0 is 0 and x + x is 2x.                                 *)
(***************************************************************************)
\* an optional number argument: not given, or given as n
Undefined == [undefined |-> TRUE]
Number(n) == [number |-> n]

\* the default of the thresholdMeters parameter, and DEFAULT_OPTIONS.offRouteThreshold
DefaultThresholdMeters == 50
DefaultOffRouteThreshold == 50

\* a double at the real number num / den, and the double that is the integer n
Double(num, den, ulps) == [num |-> num, den |-> den, ulps |-> ulps]
Exact(n) == Double(n, 1, 0)

\* a < b and a === b on doubles
Less(a, b) ==
    \/ a.num * b.den < b.num * a.den
    \/ (a.num * b.den = b.num * a.den /\ a.ulps < b.ulps)
Same(a, b) == a.num * b.den = b.num * a.den /\ a.ulps = b.ulps

\* the ulps fl gives to the result of the operation on key: 0 where fl says nothing
rounding(f, key) == IF key \in DOMAIN f THEN f[key] ELSE 0

\* an arithmetic that rounds nothing
NoRounding ==
    [haversine |-> <<>>, fraction |-> <<>>, projected |-> <<>>, partial |-> <<>>,
     sum |-> <<>>]

\* the Coordinate at a latitude, and the Position [longitude, latitude] of a line
OnMeridian(latitude) == [longitude |-> 0, latitude |-> latitude, ulps |-> 0]
PositionAt(latitude) == <<0, latitude>>

\* the two latitudes a haversine distance is taken between, each the double it is
\* (its metres and its ulps), the lower first: the formula gives one
\* double for them in either order
between(from, to) ==
    IF \/ from.latitude < to.latitude
       \/ (from.latitude = to.latitude /\ from.ulps <= to.ulps)
        THEN <<<<from.latitude, from.ulps>>, <<to.latitude, to.ulps>>>>
        ELSE <<<<to.latitude, to.ulps>>, <<from.latitude, from.ulps>>>>

\* calculateDistance: the haversine distance, for two points of equal longitude.
\* Equal doubles are 0 apart; two doubles at one latitude are a distance above 0 apart
\* that grows with their ulps; otherwise the formula rounds as fl.haversine says for
\* the two doubles
calculateDistance(fl, from, to) ==
    LET meters == IF to.latitude >= from.latitude
                      THEN to.latitude - from.latitude
                      ELSE from.latitude - to.latitude
        apart == IF to.ulps >= from.ulps THEN to.ulps - from.ulps
                                         ELSE from.ulps - to.ulps
    IN  IF meters = 0
            THEN Double(0, 1, apart)
            ELSE Double(meters, 1, rounding(fl.haversine, between(from, to)))

\* whether segStart + 1 * (segEnd - segStart) is the double segEnd: it is when one of
\* the two is 0, and when they have one sign and each is less than twice the other,
\* where the difference of two doubles is exact
addsExactly(start, end) ==
    \/ start = 0
    \/ end = 0
    \/ /\ start * end > 0
       /\ (IF start > 0 THEN start ELSE -start) < 2 * (IF end > 0 THEN end ELSE -end)
       /\ (IF end > 0 THEN end ELSE -end) < 2 * (IF start > 0 THEN start ELSE -start)

\* nearestPointOnSegment: the projection onto the segment, clamped to its ends.  t is
\* Math.max(0, Math.min(1, dot / lengthSquared)): 0 or 1 when clamped, the rounded
\* quotient in between; projected is segStart + t * d, rounded as fl.projected says
\* unless the sum is exact
nearestPointOnSegment(fl, point, segStart, segEnd) ==
    LET dx == segEnd.longitude - segStart.longitude
        dy == segEnd.latitude - segStart.latitude
        lengthSquared == dx * dx + dy * dy
        dot == (point.longitude - segStart.longitude) * dx +
               (point.latitude - segStart.latitude) * dy
        segment == <<segStart.latitude, segEnd.latitude>>
        t == IF dot <= 0 THEN Exact(0)
             ELSE IF dot >= lengthSquared THEN Exact(1)
             ELSE Double(dot, lengthSquared, rounding(fl.fraction, segment))
        projected ==
            [longitude |-> segStart.longitude + (t.num * dx) \div t.den,
             latitude |-> segStart.latitude + (t.num * dy) \div t.den,
             ulps |-> IF t = Exact(0) THEN segStart.ulps
                      ELSE IF t = Exact(1) /\ addsExactly(segStart.latitude, segEnd.latitude)
                          THEN segEnd.ulps
                          ELSE rounding(fl.projected, segment)]
    IN  IF lengthSquared = 0
            THEN [point |-> segStart, distance |-> calculateDistance(fl, point, segStart),
                  fraction |-> Exact(0)]
            ELSE [point |-> projected,
                  distance |-> calculateDistance(fl, point, projected),
                  fraction |-> t]

\* { longitude: line[i][0], latitude: line[i][1] } for the vertex i (0-based) of a line
vertex(line, i) == [longitude |-> line[i + 1][1], latitude |-> line[i + 1][2], ulps |-> 0]

\* the loop of findNearestPointOnLine from segment i on (0-based), best being the
\* nearest result so far (null before the first): a later segment wins only when
\* strictly nearer
RECURSIVE nearestFrom(_, _, _, _, _)
nearestFrom(fl, point, line, i, best) ==
    IF i >= Len(line) - 1
        THEN best
        ELSE LET result == nearestPointOnSegment(fl, point, vertex(line, i),
                                                 vertex(line, i + 1))
             IN  nearestFrom(fl, point, line, i + 1,
                             IF best = Null \/ Less(result.distance, best.distance)
                                 THEN [point |-> result.point, distance |-> result.distance,
                                       segmentIndex |-> i,
                                       segmentFraction |-> result.fraction]
                                 ELSE best)

RECURSIVE nearestFromLastWins(_, _, _, _, _)
nearestFromLastWins(fl, point, line, i, best) ==
    IF i >= Len(line) - 1
        THEN best
        ELSE LET result == nearestPointOnSegment(fl, point, vertex(line, i),
                                                 vertex(line, i + 1))
             IN  nearestFromLastWins(fl, point, line, i + 1,
                             IF best = Null \/ ~Less(best.distance, result.distance)
                                 THEN [point |-> result.point, distance |-> result.distance,
                                       segmentIndex |-> i,
                                       segmentFraction |-> result.fraction]
                                 ELSE best)

findNearestPointOnLineLastWins(fl, point, lineCoordinates) ==
    IF Len(lineCoordinates) < 2
        THEN Null
        ELSE nearestFromLastWins(fl, point, lineCoordinates, 0, Null)

\* findNearestPointOnLine: null for a line of fewer than 2 points
findNearestPointOnLine(fl, point, lineCoordinates) ==
    IF Len(lineCoordinates) < 2
        THEN Null
        ELSE nearestFrom(fl, point, lineCoordinates, 0, Null)

isOffRouteInclusive(fl, location, routeCoordinates, thresholdMeters) ==
    LET nearest == findNearestPointOnLine(fl, location, routeCoordinates)
    IN  IF nearest = Null
            THEN FALSE
            ELSE ~Less(nearest.distance,
                       Exact(IF thresholdMeters = Undefined THEN DefaultThresholdMeters
                                                            ELSE thresholdMeters.number))

\* isOffRoute(location, routeCoordinates, thresholdMeters = 50):
\* nearest.distance > thresholdMeters
isOffRoute(fl, location, routeCoordinates, thresholdMeters) ==
    LET nearest == findNearestPointOnLine(fl, location, routeCoordinates)
    IN  IF nearest = Null
            THEN FALSE
            ELSE Less(Exact(IF thresholdMeters = Undefined THEN DefaultThresholdMeters
                                                           ELSE thresholdMeters.number),
                      nearest.distance)

\* RoutePlanner.isOffRoute(coordinate, threshold?) of a planner whose current route
\* is route and whose options.offRouteThreshold is option
plannerIsOffRoute(fl, route, option, coordinate, threshold) ==
    IF route = Null \/ Len(route.geometry) < 2
        THEN FALSE
        ELSE isOffRoute(fl, coordinate, route.geometry,
                        IF threshold = Undefined THEN Number(option) ELSE threshold)

\* positionToCoordinate: [lng, lat] as a Coordinate
positionToCoordinate(pos) == [longitude |-> pos[1], latitude |-> pos[2], ulps |-> 0]

\* the length of segment i (0-based) of the line
segmentLengthAt(fl, coordinates, i) ==
    calculateDistance(fl, positionToCoordinate(coordinates[i + 1]),
                      positionToCoordinate(coordinates[i + 2]))

\* total += length, in the pass of the loop for segment i: exact when either is 0 and
\* when the two are one double, rounded as fl.sum says otherwise
plus(fl, i, total, length) ==
    IF Same(total, Exact(0)) THEN length
    ELSE IF Same(length, Exact(0)) THEN total
    ELSE IF total = length THEN Double(2 * total.num, total.den, total.ulps)
    ELSE Double(total.num * length.den + length.num * total.den, total.den * length.den,
                rounding(fl.sum, i))

\* the loop that adds the lengths of the segments i, i + 1, ... (0-based) of the line
\* to total
RECURSIVE lengthFrom(_, _, _, _)
lengthFrom(fl, coordinates, i, total) ==
    IF i >= Len(coordinates) - 1
        THEN total
        ELSE lengthFrom(fl, coordinates, i + 1,
                        plus(fl, i, total, segmentLengthAt(fl, coordinates, i)))

\* calculateLineLength: 0 for fewer than 2 points
calculateLineLength(fl, coordinates) ==
    IF Len(coordinates) < 2 THEN Exact(0) ELSE lengthFrom(fl, coordinates, 0, Exact(0))

\* segmentLength * (1 - fromFraction) for the segment fromIndex: the length itself at
\* fraction 0, 0 at fraction 1 and for a segment of length 0, rounded as fl.partial
\* says otherwise
partialLength(fl, fromIndex, segmentLength, fromFraction) ==
    IF Same(fromFraction, Exact(0)) THEN segmentLength
    ELSE IF Same(fromFraction, Exact(1)) \/ Same(segmentLength, Exact(0)) THEN Exact(0)
    ELSE Double(segmentLength.num * (fromFraction.den - fromFraction.num),
                segmentLength.den * fromFraction.den,
                rounding(fl.partial, fromIndex))

calculateRemainingLengthWholeSegment(fl, coordinates, fromIndex, fromFraction) ==
    IF Len(coordinates) < 2 \/ fromIndex >= Len(coordinates) - 1
        THEN Exact(0)
        ELSE lengthFrom(fl, coordinates, fromIndex + 1,
                        segmentLengthAt(fl, coordinates, fromIndex))

\* calculateRemainingLength: segmentLength * (1 - fromFraction) and the segments after
\* it
calculateRemainingLength(fl, coordinates, fromIndex, fromFraction) ==
    IF Len(coordinates) < 2 \/ fromIndex >= Len(coordinates) - 1
        THEN Exact(0)
        ELSE lengthFrom(fl, coordinates, fromIndex + 1,
                        partialLength(fl, fromIndex,
                                      segmentLengthAt(fl, coordinates, fromIndex),
                                      fromFraction))

\* RoutePlanner.getRemainingDistance(coordinate) of a planner whose current route is
\* route
plannerGetRemainingDistance(fl, route, coordinate) ==
    IF route = Null \/ Len(route.geometry) < 2
        THEN Null
        ELSE LET nearest == findNearestPointOnLine(fl, coordinate, route.geometry)
             IN  IF nearest = Null
                    THEN Null
                    ELSE calculateRemainingLength(fl, route.geometry, nearest.segmentIndex,
                                                  nearest.segmentFraction)

(***************************************************************************)
(* SpecGeo: one off-route or remaining-distance query, on every point,     *)
(* line, threshold and option of the sets below, with and without a        *)
(* current route, under every rounding of the operations the query makes;  *)
(* the current route is one calculated from a response whose geometry is   *)
(* the line.  The queries change nothing, so that what one query finds     *)
(* does not depend on the queries before it: a behaviour makes one.        *)
(***************************************************************************)
\* latitudes of the points asked about, and of the vertices of the lines
GeoPoints == {-51, -50, -1, 0, 1, 2, 3, 52, 53}
GeoVertices == {0, 2}

\* lines of 0 to 3 vertices
GeoLines ==
    UNION {[1..n -> {PositionAt(v) : v \in GeoVertices}] : n \in 0..3}

\* lines across latitude 0, from 6 m on one side to 1 m on the other: the sum that
\* projects a point onto the far end of such a segment is not exact
GeoCrossingLines ==
    { <<PositionAt(-6), PositionAt(1)>>,
      <<PositionAt(1), PositionAt(-6)>>,
      <<PositionAt(-6), PositionAt(1), PositionAt(-6)>> }

\* threshold arguments, and settings of options.offRouteThreshold
GeoThresholds == {Undefined, Number(0), Number(1), Number(DefaultThresholdMeters)}
GeoOptions == {DefaultOffRouteThreshold, 1, 0}

\* how far a rounded result lies from the real one, and a projected latitude from
\* the point projected: far enough for two projections to differ
MaxUlps == 1
MaxProjectedUlps == 2

\* the segments (0-based) of a line, and what nearestPointOnSegment finds on each
segmentsOf(line) == 0..(Len(line) - 2)
onSegments(fl, point, line) ==
    [k \in 1..(Len(line) - 1) |->
        nearestPointOnSegment(fl, point, vertex(line, k - 1), vertex(line, k))]

\* the operations of a nearest-point search that round: the quotient of a projection
\* that falls inside a segment, the sum of a projection that is not exact, and the
\* haversine distance to a projection on another latitude
fractionsOf(point, line) ==
    {<<vertex(line, i).latitude, vertex(line, i + 1).latitude>> : i \in
        {j \in segmentsOf(line) :
            LET t == onSegments(NoRounding, point, line)[j + 1].fraction
            IN  ~Same(t, Exact(0)) /\ ~Same(t, Exact(1))}}
projectionsOf(point, line) ==
    fractionsOf(point, line) \cup
    {<<vertex(line, i).latitude, vertex(line, i + 1).latitude>> : i \in
        {j \in segmentsOf(line) :
            /\ Same(onSegments(NoRounding, point, line)[j + 1].fraction, Exact(1))
            /\ ~addsExactly(vertex(line, j).latitude, vertex(line, j + 1).latitude)}}
distancesOf(fl, point, line) ==
    {between(point, onSegments(fl, point, line)[i + 1].point) :
        i \in {j \in segmentsOf(line) :
                  onSegments(fl, point, line)[j + 1].point.latitude # point.latitude}}

\* the operations of a length that round: the haversine length of a segment, the
\* product for a segment partly passed, and the sum of two lengths
lengthsOf(line) ==
    {between(vertex(line, i), vertex(line, i + 1)) : i \in
        {j \in segmentsOf(line) : vertex(line, j).latitude # vertex(line, j + 1).latitude}}
partialsOf(line) ==
    {j \in segmentsOf(line) : vertex(line, j).latitude # vertex(line, j + 1).latitude}
sumsOf(line) ==
    {j \in segmentsOf(line) :
        /\ vertex(line, j).latitude # vertex(line, j + 1).latitude
        /\ \E i \in segmentsOf(line) :
               i < j /\ vertex(line, i).latitude # vertex(line, i + 1).latitude}

\* the roundings of the projections of a nearest-point search
ProjectionRoundings(point, line) ==
    [haversine : {<<>>},
     fraction : [fractionsOf(point, line) -> -MaxUlps..MaxUlps],
     projected : [projectionsOf(point, line) -> -MaxProjectedUlps..MaxProjectedUlps],
     partial : {<<>>},
     sum : {<<>>}]

\* the roundings of a nearest-point search: of its projections, and of the distances
\* to the points projected
SearchRoundings(point, line) ==
    UNION {{[projections EXCEPT !.haversine = h] :
               h \in [distancesOf(projections, point, line) -> -MaxUlps..MaxUlps]} :
           projections \in ProjectionRoundings(point, line)}

\* the roundings of a remaining-distance query: of the search, and of the lengths
LengthRoundings(point, line) ==
    UNION {{[projections EXCEPT !.haversine = h, !.partial = partial, !.sum = sum] :
               h \in [distancesOf(projections, point, line) \cup lengthsOf(line)
                          -> -MaxUlps..MaxUlps],
               partial \in [partialsOf(line) -> -MaxUlps..MaxUlps],
               sum \in [sumsOf(line) -> -MaxUlps..MaxUlps]} :
           projections \in ProjectionRoundings(point, line)}

\* the Route a calculation leaves for a response with that geometry
RouteAlong(line) ==
    calculatedRoute([stamp |-> 1, waypoints |-> <<>>, live |-> FALSE],
                    [geometry |-> line, distanceMeters |-> 1000, durationSeconds |-> 600,
                     steps |-> <<>>])

\* isOffRoute of the geo module and of the planner, for one point, line and threshold
GeoProbe ==
    /\ probe = Null
    /\ \E point \in GeoPoints, line \in GeoLines \cup GeoCrossingLines,
          threshold \in GeoThresholds, option \in GeoOptions, hasRoute \in BOOLEAN :
         \E fl \in SearchRoundings(OnMeridian(point), line) :
             /\ probe' = [query |-> "isOffRoute", point |-> point, line |-> line,
                          threshold |-> threshold, option |-> option,
                          hasRoute |-> hasRoute, fl |-> fl]
             /\ answer' =
                    [segments |-> onSegments(fl, OnMeridian(point), line),
                     nearest |-> findNearestPointOnLine(fl, OnMeridian(point), line),
                     isOffRoute |-> isOffRoute(fl, OnMeridian(point), line, threshold),
                     planner |-> plannerIsOffRoute(
                                     fl, IF hasRoute THEN RouteAlong(line) ELSE Null,
                                     option, OnMeridian(point), threshold)]
    /\ UNCHANGED <<repoVars, historyVars, optionVars, routeVars, disposed, plannerObs,
                   historyObs, busVars, repoObs>>

\* getRemainingDistance of the planner, for one point and line, beside the length
\* of the line and the nearest point on it; without a current route the planner
\* computes nothing
LengthProbe ==
    /\ probe = Null
    /\ \/ \E point \in GeoPoints, line \in GeoLines :
            \E fl \in LengthRoundings(OnMeridian(point), line) :
                /\ probe' = [query |-> "getRemainingDistance", point |-> point,
                             line |-> line, hasRoute |-> TRUE, fl |-> fl]
                /\ answer' =
                       [nearest |-> findNearestPointOnLine(fl, OnMeridian(point), line),
                        length |-> calculateLineLength(fl, line),
                        remaining |-> plannerGetRemainingDistance(
                                          fl, RouteAlong(line), OnMeridian(point))]
       \/ \E point \in GeoPoints :
            /\ probe' = [query |-> "getRemainingDistance", point |-> point,
                         hasRoute |-> FALSE]
            /\ answer' =
                   [remaining |-> plannerGetRemainingDistance(
                                      NoRounding, Null, OnMeridian(point))]
    /\ UNCHANGED <<repoVars, historyVars, optionVars, routeVars, disposed, plannerObs,
                   historyObs, busVars, repoObs>>

NextGeo ==
    \/ GeoProbe
    \/ LengthProbe

InitGeo == Constructed(1, TRUE)

SpecGeo == InitGeo /\ [][NextGeo]_vars

(***************************************************************************)
(* SpecCalc: RouteCalculatorAdapter.calculate called directly.  A call     *)
(* with 2 or more waypoints suspends at await provider.getDirections; the  *)
(* source answers null or a response, in any order for calls in flight     *)
(* together; and calculate then builds the route and the stats from the    *)
(* array it was given as that array is at that moment.  The array belongs  *)
(* to the caller, who may push onto it or pop from it at any time and may  *)
(* pass it again while a call on it is in flight.                          *)
(*   probe  = [arrays |-> the content of each array of the caller,         *)
(*             calls  |-> the calls in flight: the array each was given    *)
(*                        and the content that array had when called]      *)
(*   answer = for the call that returned last: the content passed, what    *)
(*            the source answered, whether it was asked, and the result    *)
(***************************************************************************)
\* whether calculate asks the source: not for fewer than 2 waypoints
asksProvider(wps) == ~(Len(wps) < 2)

\* calculate after its await: the source answered response (null, or a
\* DirectionsResponse) and wps is the array calculate was given, as it is now
calculate(wps, response) ==
    IF response = Null
        THEN Null
        ELSE LET c == [stamp |-> 1, waypoints |-> wps, live |-> FALSE]
             IN  [route |-> calculatedRoute(c, response),
                  stats |-> calculatedStats(c, response),
                  steps |-> navigationSteps(response)]

\* the arrays the caller creates: 0 to MaxCalcLength waypoints
CalcWaypoints ==
    {[i \in 1..n |-> NewWaypoint(i, i - 1, [longitude |-> i - 1, latitude |-> 0], "stop")] :
        n \in 0..MaxCalcLength}

\* the steps of a response: none, one, two different ones in either order, three
CalcStep(instruction, meters) ==
    [instruction |-> instruction, maneuverType |-> "turn", distanceMeters |-> meters,
     durationSeconds |-> 60, geometry |-> <<>>]
CalcSteps ==
    { <<>>,
      <<CalcStep("depart", 400)>>,
      <<CalcStep("depart", 400), CalcStep("arrive", 600)>>,
      <<CalcStep("arrive", 600), CalcStep("depart", 400)>>,
      <<CalcStep("depart", 400), CalcStep("continue", 0), CalcStep("arrive", 600)>> }

\* the geometries of a response: empty, one point, and lines whose extremes are at
\* their ends, in their middle, or on different points for longitude and latitude
CalcGeometries ==
    { <<>>,
      << <<2, -1>> >>,
      << <<0, 0>>, <<1, 1>> >>,
      << <<1, 1>>, <<0, 0>> >>,
      << <<0, 2>>, <<-1, 0>>, <<1, -2>> >>,
      << <<0, 0>>, <<3, -3>>, <<1, 1>> >> }

\* what the source may answer: null, or one of the responses
CalcResponses ==
    {Null} \cup
    { [geometry |-> g, distanceMeters |-> 1000, durationSeconds |-> 600, steps |-> st] :
        g \in CalcGeometries, st \in CalcSteps }

\* calculate(waypoints) up to its first return or its await, called with a new array
\* or with one it was given before (a call on it in flight or not): fewer than 2
\* waypoints return null at once, the source not asked; otherwise the source is
\* asked and the call is in flight
CalcCall ==
    /\ LET arrays == IF probe = Null THEN <<>> ELSE probe.arrays
           inFlight == IF probe = Null THEN <<>> ELSE probe.calls
       IN  \E given \in
                 {[arrays |-> arrays, a |-> a] : a \in 1..Len(arrays)} \cup
                 {[arrays |-> Append(arrays, wps), a |-> Len(arrays) + 1] :
                     wps \in IF Len(arrays) < MaxCalcArrays THEN CalcWaypoints ELSE {}} :
             LET array == given.arrays[given.a]
             IN  IF ~asksProvider(array)
                     THEN /\ probe' = [arrays |-> given.arrays, calls |-> inFlight]
                          /\ answer' = [passed |-> array, response |-> Null,
                                        asked |-> FALSE, result |-> Null]
                     ELSE /\ Len(inFlight) < MaxCalcCalls
                          /\ probe' = [arrays |-> given.arrays,
                                       calls |-> Append(inFlight,
                                                        [array |-> given.a,
                                                         passed |-> array])]
                          /\ answer' = answer
    /\ UNCHANGED <<repoVars, historyVars, optionVars, routeVars, disposed, plannerObs,
                   historyObs, busVars, repoObs>>

\* the caller changes one of its arrays, a call on it in flight or not: pushes a
\* waypoint onto it, or pops its last one
CalcMutate ==
    /\ probe # Null
    /\ \E a \in 1..Len(probe.arrays) :
         LET array == probe.arrays[a]
             n == Len(array)
         IN  \/ /\ n < MaxCalcLength
                /\ probe' = [probe EXCEPT !.arrays[a] =
                                Append(array,
                                       NewWaypoint(n + 1, n,
                                                   [longitude |-> n, latitude |-> 0],
                                                   "stop"))]
             \/ /\ n > 0
                /\ probe' = [probe EXCEPT !.arrays[a] = SubSeq(array, 1, n - 1)]
    /\ UNCHANGED <<answer, repoVars, historyVars, optionVars, routeVars, disposed,
                   plannerObs, historyObs, busVars, repoObs>>

\* the source answers the i-th call in flight and calculate runs from its await to
\* its return, reading the array it was given as the caller has left it
CalcAnswer ==
    /\ probe # Null
    /\ \E i \in 1..Len(probe.calls), response \in CalcResponses :
         /\ probe' = [probe EXCEPT !.calls =
                          SubSeq(probe.calls, 1, i - 1) \o
                          SubSeq(probe.calls, i + 1, Len(probe.calls))]
         /\ answer' = [passed |-> probe.calls[i].passed, response |-> response,
                       asked |-> TRUE,
                       result |-> calculate(probe.arrays[probe.calls[i].array],
                                            response)]
    /\ UNCHANGED <<repoVars, historyVars, optionVars, routeVars, disposed, plannerObs,
                   historyObs, busVars, repoObs>>

NextCalc == CalcCall \/ CalcMutate \/ CalcAnswer

InitCalc == Constructed(1, TRUE)

SpecCalc == InitCalc /\ [][NextCalc]_vars

(***************************************************************************)
(* RoutePlanner (src/unnamed/part_006, lines 147-640).  A public call is   *)
(* one step up to its first await.  A calculation in flight takes two more *)
(* steps, each a continuation run from the microtask queue: when the       *)
(* source has answered, the rest of RouteCalculatorAdapter.calculate       *)
(* builds the result (Answer); then the rest of recalculate() assigns and  *)
(* announces it (Settle).  Other calls may be made between the two.  A     *)
(* call that returns or throws before it has done anything changes nothing *)
(* at all: the observers keep describing the last step that did something. *)
(***************************************************************************)
\* the arguments tried for an index parameter: in range, and one past every list
IndexArgs == 0..MaxIds

\* the arguments tried for an id parameter: every id handed out, and one never handed out
IdArgs == 1..(MaxIds + 1)

\* the mutating operations that take a history snapshot and change the Store
MutatingOps ==
    {"addWaypoint", "insertWaypoint", "removeWaypoint", "updateWaypoint", "reorderWaypoints"}

\* getAll() returns the repository's own array, and add, update and the splices of
\* insert, remove and reorder change that array in place; reindex, setAll and clear
\* give the repository a new array.  Whoever holds the old array (a calculation in
\* flight, a Route, a history entry if it held it) sees the in-place part and nothing
\* after the replacement.
aliasOf(holder, inPlace, replaced) ==
    IF holder # Null /\ holder.live
        THEN [holder EXCEPT !.waypoints = inPlace, !.live = ~replaced]
        ELSE holder

aliasAll(calcs, inPlace, replaced) ==
    [i \in 1..Len(calcs) |-> aliasOf(calcs[i], inPlace, replaced)]

\* events, as the payloads handed to events.emit
waypointAdded(wp, all) ==
    [type |-> "waypoint:added", waypoint |-> wp, index |-> wp.index, allWaypoints |-> all]
waypointRemoved(wp, index, all) ==
    [type |-> "waypoint:removed", waypoint |-> wp, index |-> index, allWaypoints |-> all]
waypointUpdated(wp, previous, all) ==
    [type |-> "waypoint:updated", waypoint |-> wp, previousCoordinate |-> previous,
     allWaypoints |-> all]
waypointReordered(fromIndex, toIndex, all) ==
    [type |-> "waypoint:reordered", fromIndex |-> fromIndex, toIndex |-> toIndex,
     allWaypoints |-> all]
routeClearedCountedAfter(previousCount) ==
    [type |-> "route:cleared", previousWaypointCount |-> 0]
routeCleared(previousCount) ==
    [type |-> "route:cleared", previousWaypointCount |-> previousCount]
historyChangeBeforeMove(action, h, index) ==
    [type |-> "history:change", action |-> action, canUndo |-> canUndo(currentIndex),
     canRedo |-> canRedo(history, currentIndex), historySize |-> getSize(history)]
historyChange(action, h, index) ==
    [type |-> "history:change", action |-> action, canUndo |-> canUndo(index),
     canRedo |-> canRedo(h, index), historySize |-> getSize(h)]
routeCalculating(count) ==
    [type |-> "route:calculating", waypointCount |-> count]
routeCalculated(route, stats) ==
    [type |-> "route:calculated", route |-> route, stats |-> stats, steps |-> route.steps]
statsUpdated(stats, previousStats) ==
    [type |-> "stats:updated", stats |-> stats, previousStats |-> previousStats]
routeError(error, count) ==
    [type |-> "route:error", error |-> error, waypointCount |-> count]

\* the types of the events in a list, in order
Types(evs) == [i \in 1..Len(evs) |-> evs[i].type]

\* how many events of a type a list holds
CountOf(evs, type) == Cardinality({i \in 1..Len(evs) : evs[i].type = type})

gatedBelowOne(wps) == Len(wps) < 1

\* recalculate's gate: if (waypoints.length < 2)
gated(wps) == Len(wps) < 2

\* recalculate, gated: the events emitted (stats:updated only if stats existed)
gatedEvents(wps, previousStats) ==
    IF previousStats # Null
        THEN <<statsUpdated([distanceMeters |-> 0, durationSeconds |-> 0,
                             waypointCount |-> Len(wps), stepCount |-> 0],
                            previousStats)>>
        ELSE <<>>

\* the stamp of the calculation that built a route or its stats; 0 for null
stampOf(built) == IF built = Null THEN 0 ELSE built.stamp

\* the calculator.calculate(waypoints) call recalculate starts, awaiting the source:
\* the array it was given (the repository's own), what calculate has returned or
\* thrown (null while the source has not answered), and, as observers, how many
\* waypoints that array held and which route and stats were current at the start
startedCalculation(wps, route, stats) ==
    [stamp |-> calcSeq + 1, waypoints |-> wps, live |-> TRUE, result |-> Null,
     countAtStart |-> Len(wps), routeAtStart |-> stampOf(route),
     statsAtStart |-> stampOf(stats)]

\* recalculate(), up to its await, on the list wps; route and calcs are the current
\* route and the calls in flight as the preceding mutation left them, evs the events
\* already emitted by the caller
Recalculate(wps, route, calcs, evs) ==
    IF gated(wps)
        THEN /\ currentRoute' = Null
             /\ currentStats' = Null
             /\ emitted' = evs \o gatedEvents(wps, currentStats)
             /\ pending' = calcs
             /\ UNCHANGED <<calculating, calcSeq>>
        ELSE /\ calcSeq < MaxCalcs
             /\ Len(calcs) < MaxPending
             /\ calculating' = TRUE
             /\ emitted' = evs \o <<routeCalculating(Len(wps))>>
             /\ pending' = Append(calcs, startedCalculation(wps, route, currentStats))
             /\ calcSeq' = calcSeq + 1
             /\ currentRoute' = route
             /\ UNCHANGED currentStats

AutoRecalculateNever(wps, route, calcs, evs) ==
    /\ currentRoute' = route
    /\ pending' = calcs
    /\ emitted' = evs
    /\ UNCHANGED <<currentStats, calculating, calcSeq>>

\* if (this.options.autoRecalculate) await this.recalculate()
AutoRecalculate(wps, route, calcs, evs) ==
    IF autoRecalculate
        THEN Recalculate(wps, route, calcs, evs)
        ELSE /\ currentRoute' = route
             /\ pending' = calcs
             /\ emitted' = evs
             /\ UNCHANGED <<currentStats, calculating, calcSeq>>

\* what a public call that did something is recorded as: the operation, whether it
\* succeeded, whether it found its target missing, whether recalculate() ran in it,
\* the list before it (for a successful mutation or undo), and, for a successful
\* mutation, whether the history cursor was on the newest entry when it was made
Called(op, ok, miss, recalc) ==
    [op |-> op, ok |-> ok, miss |-> miss, recalc |-> recalc,
     before |-> IF ok /\ op \in MutatingOps \cup {"undo"} THEN Content(waypoints) ELSE <<>>,
     atNewest |-> (ok /\ op \in MutatingOps) => (currentIndex = Len(history) - 1)]

\* the number of successful mutating calls made since construction (counted up to
\* MaxHistorySize), each made with no calculation in flight and with no other call
\* that did something in between; RunOver otherwise
RunOver == [counting |-> FALSE, n |-> 0]

RunAfter(op, ok) ==
    IF op \in MutatingOps /\ ok /\ pending = <<>> /\ run.counting /\ run.n < MaxHistorySize
        THEN [counting |-> TRUE, n |-> run.n + 1]
        ELSE RunOver

\* the public operations whose first statement is this.ensureNotDisposed()
Guarded ==
    {"addWaypoint", "insertWaypoint", "removeWaypoint", "updateWaypoint",
     "reorderWaypoints", "clear", "undo", "redo", "recalculate"}

\* the public queries: each returns from the fields, with no call of ensureNotDisposed()
Queries ==
    {"getWaypoints", "getRoute", "getStats", "getNavigationSteps", "isCalculating",
     "canUndo", "canRedo", "getHistorySize", "getNearestPointOnRoute", "isOffRoute",
     "getRemainingDistance"}

\* the subscriptions: each delegates to the event bus, with no call of ensureNotDisposed()
Subscriptions == {"on", "once", "off"}

\* whether a call of op made in the current state throws 'RoutePlanner has been
\* disposed': ensureNotDisposed() throws when disposed, in the operations that call it
throwsDisposed(op) == op \in Guarded /\ disposed

\* getWaypoints(), getRoute(), getStats(), isCalculating(), getHistorySize()
getWaypoints == waypoints
getRoute == currentRoute
getStats == currentStats
isCalculating == calculating
getHistorySize == getSize(history)

\* ensureNotDisposed() throws: the call does nothing
Throws(op) ==
    /\ throwsDisposed(op)
    /\ UNCHANGED vars

\* a public call that did something, as the observers record it; the promise it
\* returned is pending when the call awaits a calculation it started, resolved already
\* otherwise (the synchronous calls return no promise: they have returned)
Did(op, ok, miss, recalc) ==
    /\ calls < MaxCalls
    /\ calls' = calls + 1
    /\ lastCall' = Called(op, ok, miss, recalc)
    /\ step' = [kind |-> "call",
                promise |-> IF calcSeq' > calcSeq THEN "pending" ELSE "resolved"]
    /\ run' = RunAfter(op, ok)
    /\ UNCHANGED <<calculatedTotal, invoked, emitThrew, busCall, repoObs, geoVars>>

\* a member of the Set the planner's bus keeps for an event: the listener itself
\* (wrapper = 0), or the onceWrapper the k-th once() call created around it
Subscription(event, fn, k) == [event |-> event, fn |-> fn, wrapper |-> k]

\* this.events.emit(type, data): emit on the Set kept for that event; st is the
\* planner's bus (its Sets, in insertion order, and the once() log)
plannerEmit(st, type) ==
    LET done == emit(SelectSeq(st.ls, LAMBDA e : e.event = type), st.once)
    IN  [ls |-> SelectSeq(st.ls, LAMBDA e : e.event # type \/ setHas(done.ls, e)),
         once |-> done.once]

\* the emits of one step, in order
RECURSIVE deliver(_, _)
deliver(st, evs) ==
    IF evs = <<>> THEN st ELSE deliver(plannerEmit(st, Head(evs).type), Tail(evs))

\* the planner's bus once the events of the step have been emitted on it
Delivered ==
    /\ listeners' = deliver([ls |-> listeners, once |-> onceLog], emitted').ls
    /\ onceLog' = deliver([ls |-> listeners, once |-> onceLog], emitted').once
    /\ UNCHANGED cancelled

\* a successful mutation: history.push of the list as it was, the Store changed to
\* wps, the event, then the automatic recalculation
Mutation(op, action, wps, inPlace, replaced, evs) ==
    /\ history' = aliasAll(push(history, currentIndex, maxSize, waypoints, action),
                           inPlace, replaced)
    /\ currentIndex' = pushIndex(history')
    /\ waypoints' = wps
    /\ AutoRecalculate(wps, aliasOf(currentRoute, inPlace, replaced),
                       aliasAll(pending, inPlace, replaced), evs)
    /\ Did(op, TRUE, FALSE, autoRecalculate)
    /\ Delivered
    /\ UNCHANGED <<optionVars, disposed, historyObs>>

\* addWaypoint on a planner that is not disposed, while fewer than limit waypoints
\* have been created
addWaypointUpTo(limit) ==
    /\ ~disposed
    /\ nextId <= limit
    /\ \E c \in Coords, n \in Names :
         LET wps == add(waypoints, nextId, c, n)
         IN  Mutation("addWaypoint", "add", wps, wps, FALSE,
                      <<waypointAdded(wps[Len(wps)], wps)>>)
    /\ nextId' = nextId + 1

addWaypoint ==
    \/ Throws("addWaypoint")
    \/ addWaypointUpTo(MaxIds)

insertWaypoint ==
    \/ Throws("insertWaypoint")
    \/ /\ ~disposed
       /\ nextId <= MaxIds
       /\ \E c \in Coords, index \in IndexArgs, n \in Names :
            LET wps == insert(waypoints, nextId, c, index, n)
                at == clampIndex(index, Len(waypoints))
            IN  Mutation("insertWaypoint", "add", wps,
                         insertSpliced(waypoints, nextId, c, index, n), TRUE,
                         <<waypointAdded(NewWaypoint(nextId, at, c, n), wps)>>)
       /\ nextId' = nextId + 1

\* removeWaypoint / updateWaypoint with an id getById does not find: return at once
Missed(op) ==
    UNCHANGED vars

removeWaypoint ==
    \/ Throws("removeWaypoint")
    \/ /\ ~disposed
       /\ \E id \in IdArgs :
            IF getById(waypoints, id) = Null
                THEN Missed("removeWaypoint")
                ELSE LET wp == getById(waypoints, id)
                         wps == remove(waypoints, id)
                     IN  /\ Mutation("removeWaypoint", "remove", wps,
                                     removeSpliced(waypoints, id), TRUE,
                                     <<waypointRemoved(wp, wp.index, wps)>>)
                         /\ UNCHANGED nextId

\* (update never returns null once getById has found the id: that branch is dead)
updateWaypoint ==
    \/ Throws("updateWaypoint")
    \/ /\ ~disposed
       /\ \E id \in IdArgs, c \in Coords :
            IF getById(waypoints, id) = Null
                THEN Missed("updateWaypoint")
                ELSE LET old == getById(waypoints, id)
                         wps == update(waypoints, id, c)
                     IN  /\ Mutation("updateWaypoint", "update", wps, wps, FALSE,
                                     <<waypointUpdated(getById(wps, id),
                                          [longitude |-> old.longitude,
                                           latitude |-> old.latitude], wps)>>)
                         /\ UNCHANGED nextId

\* reorderWaypoints pushes the history entry before it knows whether reorder succeeds
reorderWaypoints ==
    \/ Throws("reorderWaypoints")
    \/ /\ ~disposed
       /\ \E fromIndex \in IndexArgs, toIndex \in IndexArgs :
            IF reorderOk(waypoints, fromIndex, toIndex)
                THEN LET wps == reorder(waypoints, fromIndex, toIndex)
                     IN  /\ Mutation("reorderWaypoints", "reorder", wps,
                                     reorderSpliced(waypoints, fromIndex, toIndex), TRUE,
                                     <<waypointReordered(fromIndex, toIndex, wps)>>)
                         /\ UNCHANGED nextId
                ELSE /\ history' = push(history, currentIndex, maxSize, waypoints, "reorder")
                     /\ currentIndex' = pushIndex(history')
                     /\ emitted' = <<>>
                     /\ UNCHANGED <<repoVars, optionVars, routeVars, disposed, historyObs>>
                     /\ Did("reorderWaypoints", FALSE, TRUE, FALSE)
                     /\ Delivered

\* clear(): no recalculation; the route and stats are set to null directly
clear ==
    \/ Throws("clear")
    \/ /\ ~disposed
       /\ IF Len(waypoints) > 0
            THEN /\ history' = aliasAll(push(history, currentIndex, maxSize, waypoints,
                                             "clear"), waypoints, TRUE)
                 /\ currentIndex' = pushIndex(history')
            ELSE /\ history' = aliasAll(history, waypoints, TRUE)
                 /\ UNCHANGED currentIndex
       /\ waypoints' = <<>>
       /\ currentRoute' = Null
       /\ currentStats' = Null
       /\ pending' = aliasAll(pending, waypoints, TRUE)
       /\ emitted' = <<routeCleared(Len(waypoints))>>
       /\ UNCHANGED <<nextId, optionVars, calculating, calcSeq, disposed, historyObs>>
       /\ Did("clear", TRUE, FALSE, FALSE)
       /\ Delivered

\* RoutePlanner.undo(): what it returns
undoReturns(h, index) == undoEntry(h, index) # Null

\* RoutePlanner.undo(): the Store's list afterwards
undoList(h, index, wps) ==
    IF undoEntry(h, index) = Null THEN wps ELSE setAll(undoEntry(h, index).waypoints)

\* RoutePlanner.redo(): what it returns
redoReturns(h, index) == redoEntry(h, index) # Null

\* RoutePlanner.redo(): the Store's list afterwards
redoList(h, index, wps) ==
    IF redoEntry(h, index) = Null THEN wps ELSE setAll(redoEntry(h, index).waypoints)

\* the Store's list after n undo() calls in a row
RECURSIVE undoTimes(_, _, _, _)
undoTimes(h, index, wps, n) ==
    IF n = 0
        THEN wps
        ELSE undoTimes(h, undoIndex(index), undoList(h, index, wps), n - 1)

\* the entry whose waypoints were given to setAll: setAll maps them into a new array
\* for the repository, so the entry keeps an array of its own
givenToSetAll(entry) == entry

\* undo() and redo() once the history has moved to index and returned entry
Restore(op, action, index, entry) ==
    IF entry = Null
        THEN UNCHANGED vars
        ELSE /\ currentIndex' = index
             /\ waypoints' = setAll(entry.waypoints)
             /\ history' = [aliasAll(history, waypoints, TRUE)
                               EXCEPT ![index + 1] = givenToSetAll(@)]
             /\ AutoRecalculate(setAll(entry.waypoints),
                                aliasOf(currentRoute, waypoints, TRUE),
                                aliasAll(pending, waypoints, TRUE),
                                <<historyChange(action, history, index)>>)
             /\ Did(op, TRUE, FALSE, autoRecalculate)
             /\ Delivered
             /\ UNCHANGED <<nextId, optionVars, disposed, historyObs>>

undo ==
    \/ Throws("undo")
    \/ /\ ~disposed
       /\ Restore("undo", "undo", undoIndex(currentIndex), undoEntry(history, currentIndex))

redo ==
    \/ Throws("redo")
    \/ /\ ~disposed
       /\ Restore("redo", "redo", redoIndex(history, currentIndex),
                  redoEntry(history, currentIndex))

\* recalculate() called by the user
recalculate ==
    \/ Throws("recalculate")
    \/ /\ ~disposed
       /\ Recalculate(waypoints, currentRoute, pending, <<>>)
       /\ Did("recalculate", TRUE, FALSE, TRUE)
       /\ Delivered
       /\ UNCHANGED <<repoVars, historyVars, optionVars, disposed, historyObs>>

\* dispose(): every listener is removed; calculator.cancel() only asks the source to
\* stop: a call in flight may still settle, and the calculating flag is not reset
dispose ==
    /\ disposed' = TRUE
    /\ listeners' = <<>>
    /\ waypoints' = <<>>
    /\ history' = <<>>
    /\ currentIndex' = -1
    /\ currentRoute' = Null
    /\ currentStats' = Null
    /\ pending' = aliasAll(pending, waypoints, TRUE)
    /\ emitted' = <<>>
    /\ UNCHANGED <<nextId, optionVars, calculating, calcSeq, historyObs, onceLog,
                   cancelled>>
    /\ Did("dispose", TRUE, FALSE, FALSE)

\* on, once, off and the handle once() returned, once the bus has changed: nothing
\* else does.  A call that leaves the bus as it was (a listener subscribed already,
\* or one to remove that is not there) has done nothing.
Subscribed(op, ls) ==
    /\ ls # listeners
    /\ listeners' = ls
    /\ emitted' = <<>>
    /\ UNCHANGED <<repoVars, historyVars, optionVars, routeVars, disposed, historyObs>>
    /\ Did(op, TRUE, FALSE, FALSE)

\* on(event, listener): this.events.on
on ==
    /\ \E event \in SubscribedEvents, fn \in PlannerListeners :
         Subscribed("on", setAdd(listeners, Subscription(event, fn, 0)))
    /\ UNCHANGED <<onceLog, cancelled>>

\* once(event, listener): this.events.once adds a new onceWrapper
once ==
    /\ Len(onceLog) < MaxPlannerOnce
    /\ \E event \in SubscribedEvents, fn \in PlannerListeners :
         /\ Subscribed("once",
                       setAdd(listeners, Subscription(event, fn, Len(onceLog) + 1)))
         /\ onceLog' = Append(onceLog, [fn |-> fn, times |-> 0])
    /\ UNCHANGED cancelled

\* off(event, listener), and the handle on() returned: this.events.off
off ==
    /\ \E event \in SubscribedEvents, fn \in PlannerListeners :
         Subscribed("off", setDelete(listeners, Subscription(event, fn, 0)))
    /\ UNCHANGED <<onceLog, cancelled>>

\* the handle once() returned for its k-th call: this.off(event, onceWrapper)
unsubscribe ==
    /\ \E k \in 1..Len(onceLog) :
         /\ Subscribed("unsubscribe",
                       SelectSeq(listeners, LAMBDA e : e.wrapper # k))
         /\ cancelled' = IF onceLog[k].times = 0 THEN cancelled \cup {k} ELSE cancelled
    /\ UNCHANGED onceLog

settledRouteFenced(route, result) ==
    IF route # Null /\ route.stamp > result.stamp THEN route ELSE result

\* this.currentRoute = result.route: assigned whatever the current route is
settledRoute(route, result) == result

\* the error the catch block receives: the one recalculate throws for a null result,
\* or the one the source rejected with
caught(outcome) ==
    IF outcome = "null"
        THEN [message |-> "Failed to calculate directions"]
        ELSE [message |-> "rejected by the source"]

routeErrorEventsNone(c, outcome) == <<>>

\* the catch block's emit: route:error with the error and waypoints.length as it is then
routeErrorEvents(c, outcome) == <<routeError(caught(outcome), Len(c.waypoints))>>

flagSeenLate(flag) == flag

\* isCalculating() as the listeners of route:calculated, stats:updated and route:error
\* see it: this.calculating = false is assigned before the emits, on both paths
flagSeenByListeners(flag) == FALSE

flagKeptOnFailure(flag, outcome) == IF outcome = "ok" THEN FALSE ELSE flag

\* this.calculating = false, on success and in the catch block
flagAfterSettling(flag, outcome) == FALSE

\* the calls in flight whose calculate has returned or thrown: their recalculate()
\* continuations wait in the microtask queue, in the order of turn
answered(calcs) == {j \in 1..Len(calcs) : calcs[j].result # Null}

\* what calculate returns or throws once the source has answered: for a response
\* the stats are built now, from the array as it is now (the Route is built now
\* too: it holds the array itself, which pending keeps up to date); turn is the
\* place of recalculate()'s continuation in the microtask queue
calculateResult(c, outcome, response, turn) ==
    [outcome |-> outcome, response |-> response, turn |-> turn,
     stats |-> IF outcome = "ok" THEN calculatedStats(c, response) ELSE Null]

\* the continuation of RouteCalculatorAdapter.calculate after its await: the source
\* has answered the i-th call in flight (a response, null, or a rejection)
Answer(i, outcome) ==
    /\ i \in 1..Len(pending)
    /\ pending[i].result = Null
    /\ \E response \in IF outcome = "ok" THEN Responses ELSE {Null} :
         pending' = [pending EXCEPT ![i].result =
                        calculateResult(pending[i], outcome, response,
                                        Cardinality(answered(pending)) + 1)]
    /\ emitted' = <<>>
    /\ step' = [kind |-> "answer", promise |-> "pending"]
    /\ UNCHANGED <<repoVars, historyVars, optionVars, currentRoute, currentStats,
                   calculating, calcSeq, disposed, lastCall, run, calls, calculatedTotal,
                   historyObs, busVars, repoObs, geoVars>>

\* pending without its i-th element, the continuations behind it one turn nearer
without(calcs, i) ==
    [j \in 1..(Len(calcs) - 1) |->
        LET c == IF j < i THEN calcs[j] ELSE calcs[j + 1]
        IN  IF c.result = Null THEN c ELSE [c EXCEPT !.result.turn = @ - 1]]

\* the continuation of recalculate() after its await, for the i-th call in flight:
\* the first in the microtask queue.  The catch block swallows the failure, so the
\* promise of recalculate() (and of the operation awaiting it) resolves either way.
Settle(i, outcome) ==
    /\ i \in 1..Len(pending)
    /\ pending[i].result # Null
    /\ pending[i].result.turn = 1
    /\ pending[i].result.outcome = outcome
    /\ \/ /\ outcome = "ok"
          /\ LET route == calculatedRoute(pending[i], pending[i].result.response)
                 stats == pending[i].result.stats
             IN  /\ currentRoute' = settledRoute(currentRoute, route)
                 /\ currentStats' = stats
                 /\ emitted' = <<routeCalculated(route, stats),
                                 statsUpdated(stats, currentStats)>>
       \/ /\ outcome \in {"null", "reject"}
          /\ emitted' = routeErrorEvents(pending[i], outcome)
          /\ UNCHANGED <<currentRoute, currentStats>>
    /\ calculating' = flagAfterSettling(calculating, outcome)
    /\ pending' = without(pending, i)
    /\ calculatedTotal' = calculatedTotal + CountOf(emitted', "route:calculated")
    /\ step' = [kind |-> "settle", ok |-> (outcome = "ok"), promise |-> "resolved",
                seen |-> [isCalculating |-> flagSeenByListeners(calculating),
                          getRoute |-> currentRoute', getStats |-> currentStats']]
    /\ Delivered
    /\ UNCHANGED <<repoVars, historyVars, optionVars, calcSeq, disposed, lastCall, run,
                   calls, historyObs, cancelled, invoked, emitThrew, busCall, repoObs,
                   geoVars>>

Next ==
    \/ addWaypoint
    \/ insertWaypoint
    \/ removeWaypoint
    \/ updateWaypoint
    \/ reorderWaypoints
    \/ clear
    \/ undo
    \/ redo
    \/ recalculate
    \/ dispose
    \/ on
    \/ once
    \/ off
    \/ unsubscribe
    \/ \E i \in 1..MaxPending, outcome \in Outcomes : Answer(i, outcome)
    \/ \E i \in 1..MaxPending, outcome \in Outcomes : Settle(i, outcome)

Spec == Init /\ [][Next]_vars

\* the source answers the request of the calculator call with that stamp
AnswerOf(stamp) ==
    \E i \in 1..MaxPending, outcome \in Outcomes :
        /\ i <= Len(pending)
        /\ pending[i].stamp = stamp
        /\ Answer(i, outcome)

\* the continuation of recalculate() for the calculator call with that stamp runs
SettleOf(stamp) ==
    \E i \in 1..MaxPending, outcome \in Outcomes :
        /\ i <= Len(pending)
        /\ pending[i].stamp = stamp
        /\ Settle(i, outcome)

\* the directions source settles every request in the end (a result, null or a
\* rejection), and the microtask queue runs the continuations put on it: no call of
\* the calculator stays in flight forever
SourceSettles ==
    \A stamp \in 1..MaxCalcs : WF_vars(AnswerOf(stamp)) /\ WF_vars(SettleOf(stamp))

SpecLive == Init /\ [][Next]_vars /\ SourceSettles

(***************************************************************************)
(* SpecAdds: a planner used with addWaypoint only, one call at a time,     *)
(* each awaited before the next, and a source that always succeeds.        *)
(***************************************************************************)
\* the next addWaypoint, made once the promise of the previous one has resolved
addAwaited ==
    /\ pending = <<>>
    /\ addWaypointUpTo(MaxAdds)

\* the source resolves the one call in flight with directions
sourceSucceeds == Answer(1, "ok")

\* the addWaypoint awaiting that call goes on
addResumes == Settle(1, "ok")

NextAdds ==
    \/ addAwaited
    \/ sourceSucceeds
    \/ addResumes

SpecAdds == Init /\ [][NextAdds]_vars

(***************************************************************************)
(* C1. Index invariant: after every call in any sequence of add / insert / *)
(* remove / update / reorder / setAll / clear, the i-th waypoint returned  *)
(* by getAll() has index i (0-based): the indices are exactly 0..count-1   *)
(* in list order, with no gaps or duplicates.                              *)
(***************************************************************************)
C1_IndexInvariant ==
    \A i \in 1..Len(waypoints) : waypoints[i].index = i - 1

\* a list in which a removal, an insert or a reorder has moved the first and the third
\* waypoint created away from the positions they were created at
C1_Witness ==
    /\ Len(waypoints) >= 2
    /\ \E i \in 1..Len(waypoints) : waypoints[i].id = 1 /\ i # 1
    /\ \E i \in 1..Len(waypoints) : waypoints[i].id = 3 /\ i # 3

(***************************************************************************)
(* C2. History mirrors timeline: on a fresh RoutePlanner, for every N >= 1 *)
(* not larger than maxHistorySize, after N successful mutating calls, each *)
(* awaited, N undo() calls leave getWaypoints() content-equal to the list  *)
(* that existed before the first mutation (the empty list).                *)
(* Stated on the state the N mutations have led to: what N undo() calls    *)
(* make of it.                                                             *)
(***************************************************************************)
C2_HistoryMirrorsTimeline ==
    (run.counting /\ run.n >= 1 /\ run.n <= maxSize /\ pending = <<>>) =>
        Content(undoTimes(history, currentIndex, waypoints, run.n)) = <<>>

(***************************************************************************)
(* C3. Undo reverts exactly the last change: after a successful mutating   *)
(* operation made with the history cursor on the newest entry, a single    *)
(* undo() returns true and leaves getWaypoints() content-equal to the list *)
(* immediately before that operation.                                      *)
(***************************************************************************)
C3_UndoRevertsLastChange ==
    (lastCall.op \in MutatingOps /\ lastCall.ok /\ lastCall.atNewest) =>
        /\ undoReturns(history, currentIndex)
        /\ Content(undoList(history, currentIndex, waypoints)) = lastCall.before

(***************************************************************************)
(* C4. Redo restores the last undone change: whenever undo() has returned  *)
(* true, an immediately following redo() returns true and makes            *)
(* getWaypoints() content-equal to the list as it was just before that     *)
(* undo().                                                                 *)
(***************************************************************************)
C4_RedoRestoresUndone ==
    (lastCall.op = "undo" /\ lastCall.ok) =>
        /\ redoReturns(history, currentIndex)
        /\ Content(redoList(history, currentIndex, waypoints)) = lastCall.before

(***************************************************************************)
(* C6. A stale calculation never overwrites newer state: when a            *)
(* calculation completes successfully while the planner holds the result   *)
(* of a calculation started after it, getRoute() and getStats() keep that  *)
(* later calculation's result.                                             *)
(***************************************************************************)
C6_StaleNeverOverwrites ==
    [][ (/\ step'.kind = "settle"
         /\ step'.ok
         /\ currentRoute # Null
         /\ currentRoute.stamp > emitted'[1].route.stamp)
        => (currentRoute' = currentRoute /\ currentStats' = currentStats) ]_vars

(***************************************************************************)
(* C7. Overlapping calculations are neither fenced nor discarded: a        *)
(* recalculation with two or more waypoints starts a new calculator call   *)
(* whether or not others are in flight, and every successful completion    *)
(* replaces currentRoute and currentStats with its own result, so the      *)
(* planner holds the result of whichever completed last, even one started  *)
(* before the calculation whose result it replaces.                        *)
(***************************************************************************)
C7_StartsIndependently ==
    (step'.kind = "call" /\ lastCall'.recalc /\ Len(waypoints') >= 2) =>
        /\ calcSeq' = calcSeq + 1
        /\ Len(pending') = Len(pending) + 1
        /\ pending'[Len(pending')].stamp = calcSeq'

C7_CompletionReplaces ==
    (step'.kind = "settle" /\ step'.ok) =>
        /\ \E i \in 1..Len(pending) :
             /\ pending' = without(pending, i)
             /\ currentRoute'.stamp = pending[i].stamp
             /\ currentStats'.stamp = pending[i].stamp
        /\ Types(emitted') = <<"route:calculated", "stats:updated">>
        /\ currentRoute' = emitted'[1].route
        /\ currentStats' = emitted'[1].stats

\* C7: every recalculation starts its own call, and every successful completion
\* replaces the route and stats, so the last to finish wins
C7_LastToFinishWins ==
    [][C7_StartsIndependently /\ C7_CompletionReplaces]_vars

\* both calculations have completed, and the one that completed last replaced the
\* result of one started after it
C7_Witness ==
    /\ step.kind = "settle"
    /\ step.ok
    /\ pending = <<>>
    /\ currentRoute # Null
    /\ emitted[2].previousStats # Null
    /\ emitted[2].previousStats.stamp > currentRoute.stamp

(***************************************************************************)
(* C8. Calculation gating: recalculate() with 0 or 1 waypoints in the      *)
(* Store (called directly, or by a mutation, undo or redo) sets            *)
(* currentRoute and currentStats to null, starts no calculator call, emits *)
(* no route:calculating / route:calculated / route:error, and emits        *)
(* stats:updated exactly when stats were non-null beforehand.              *)
(***************************************************************************)
C8_Gating ==
    [][ (step'.kind = "call" /\ lastCall'.recalc /\ Len(waypoints') < 2) =>
            /\ currentRoute' = Null
            /\ currentStats' = Null
            /\ calcSeq' = calcSeq
            /\ Len(pending') = Len(pending)
            /\ CountOf(emitted', "route:calculating") = 0
            /\ CountOf(emitted', "route:calculated") = 0
            /\ CountOf(emitted', "route:error") = 0
            /\ CountOf(emitted', "stats:updated") = (IF currentStats # Null THEN 1 ELSE 0)
      ]_vars

\* a gated recalculation that found stats and emitted stats:updated; nothing started
C8_Witness ==
    /\ step.kind = "call"
    /\ lastCall.recalc
    /\ Len(waypoints) < 2
    /\ CountOf(emitted, "stats:updated") = 1
    /\ currentStats = Null

(***************************************************************************)
(* C9, as amended. When a calculator call returns null or rejects, exactly *)
(* one route:error is emitted, carrying the error and the length, at that  *)
(* moment, of the array the calculation was started with; no               *)
(* route:calculated or stats:updated is emitted for it; getRoute() and     *)
(* getStats() keep the values they had immediately before the failure was  *)
(* handled; and the promise of recalculate() resolves.                     *)
(***************************************************************************)
C9_FailureLeavesUntouched ==
    [][ (step'.kind = "settle" /\ ~step'.ok) =>
            /\ \E i \in 1..Len(pending) :
                 /\ pending' = without(pending, i)
                 /\ \E outcome \in Outcomes \ {"ok"} :
                      emitted' = <<routeError(caught(outcome), Len(pending[i].waypoints))>>
            /\ currentRoute' = currentRoute
            /\ currentStats' = currentStats
            /\ step'.promise = "resolved"
      ]_vars

\* a calculation failed while the planner held the result of the latest one started
C9_Witness ==
    /\ step.kind = "settle"
    /\ ~step.ok
    /\ Types(emitted) = <<"route:error">>
    /\ pending = <<>>
    /\ currentRoute # Null
    /\ currentRoute.stamp = calcSeq
    /\ calcSeq >= 2

(***************************************************************************)
(* C9, as written. When a calculator call returns null or rejects, exactly *)
(* one route:error is emitted, no route:calculated or stats:updated, the   *)
(* promise resolves, and getRoute() and getStats() are the values they     *)
(* were when that calculation started.                                     *)
(***************************************************************************)
C9_KeepsValuesFromStart ==
    [][ (step'.kind = "settle" /\ ~step'.ok) =>
            /\ Types(emitted') = <<"route:error">>
            /\ step'.promise = "resolved"
            /\ \E i \in 1..Len(pending) :
                 /\ pending' = without(pending, i)
                 /\ stampOf(currentRoute') = pending[i].routeAtStart
                 /\ stampOf(currentStats') = pending[i].statsAtStart
      ]_vars

(***************************************************************************)
(* C10. Operations that miss their target are pure no-ops: removeWaypoint  *)
(* and updateWaypoint with an unknown id, and reorderWaypoints with an     *)
(* index out of range, leave the waypoint list, the history (entries and   *)
(* cursor) and the current route and stats unchanged, emit no event and    *)
(* start no calculation.                                                   *)
(***************************************************************************)
C10_MissesAreNoOps ==
    [][ (step'.kind = "call" /\ lastCall'.miss) =>
            /\ UNCHANGED <<waypoints, history, currentIndex, currentRoute, currentStats>>
            /\ emitted' = <<>>
            /\ calcSeq' = calcSeq
      ]_vars

(***************************************************************************)
(* C11. After dispose(), every public operation fails immediately with the *)
(* disposed error: the mutations, undo, redo, clear and recalculate, and   *)
(* also the queries and the subscriptions on, once and off.                *)
(* As an invariant: in a disposed planner a call of any of them throws.    *)
(***************************************************************************)
C11_EverythingThrowsOnceDisposed ==
    disposed => \A op \in Guarded \cup Queries \cup Subscriptions : throwsDisposed(op)

(***************************************************************************)
(* C12. dispose() is terminal: in every state after it the waypoint list   *)
(* and the history are empty and getRoute() and getStats() are null, also  *)
(* once a calculation that was in flight at dispose() has completed.       *)
(***************************************************************************)
C12_DisposedStaysEmpty ==
    disposed =>
        /\ getWaypoints = <<>>
        /\ getHistorySize = 0
        /\ getRoute = Null
        /\ getStats = Null

(***************************************************************************)
(* C13. Whenever the Store holds fewer than two waypoints and no           *)
(* calculation is in flight, getRoute() and getStats() are null.           *)
(***************************************************************************)
C13_NoRouteBelowTwo ==
    (Len(waypoints) < 2 /\ pending = <<>>) => (getRoute = Null /\ getStats = Null)

(***************************************************************************)
(* C14. With autoRecalculate on, a source that always succeeds and         *)
(* addWaypoint calls made one at a time, each awaited: the first add       *)
(* starts no calculation and leaves getStats() null; once the k-th add     *)
(* (k >= 2) has resolved, getStats().waypointCount is k, with the distance *)
(* and duration the source returned, and exactly k - 1 route:calculated    *)
(* events have been emitted in total.  (Under SpecAdds `calls` is the      *)
(* number of adds made; an add has resolved when nothing is in flight.)    *)
(***************************************************************************)
C14_SequentialAdds ==
    (autoRecalculate /\ pending = <<>>) =>
        /\ calls = 1 =>
              /\ calcSeq = 0
              /\ CountOf(emitted, "route:calculating") = 0
              /\ getStats = Null
              /\ calculatedTotal = 0
        /\ calls >= 2 =>
              /\ getStats # Null
              /\ getStats.waypointCount = calls
              /\ \E response \in Responses :
                    /\ getStats.distanceMeters = response.distanceMeters
                    /\ getStats.durationSeconds = response.durationSeconds
              /\ calculatedTotal = calls - 1

\* the third add in a row has resolved: three waypoints counted, two events in total
C14_Witness ==
    /\ autoRecalculate
    /\ pending = <<>>
    /\ calls = MaxAdds
    /\ lastCall.op = "addWaypoint"
    /\ getStats # Null
    /\ getStats.waypointCount = MaxAdds
    /\ calculatedTotal = MaxAdds - 1

(***************************************************************************)
(* C19. isCalculating() is true in every state in which at least one       *)
(* calculator.calculate call has not settled yet, also while two calls     *)
(* overlap and one of them has already completed.                          *)
(***************************************************************************)
C19_CalculatingWhileInFlight ==
    pending # <<>> => isCalculating

(***************************************************************************)
(* C15. Effect ordering of every successful addWaypoint / insertWaypoint / *)
(* removeWaypoint / updateWaypoint / reorderWaypoints.                     *)
(***************************************************************************)
\* the waypoint:* event types
WaypointEvents ==
    {"waypoint:added", "waypoint:removed", "waypoint:updated", "waypoint:reordered"}

\* the step is a successful mutating call
C15_Mutated ==
    /\ step'.kind = "call"
    /\ lastCall'.op \in MutatingOps
    /\ lastCall'.ok

\* the list as it was before the call is the newest history entry, the Store holds
\* the new list, and the first and only waypoint:* event carries the new list
C15_PushMutateEmit ==
    /\ history' # <<>>
    /\ currentIndex' = Len(history') - 1
    /\ history'[Len(history')].waypoints = waypoints
    /\ emitted' # <<>>
    /\ emitted'[1].type \in WaypointEvents
    /\ Cardinality({i \in 1..Len(emitted') : emitted'[i].type \in WaypointEvents}) = 1
    /\ emitted'[1].allWaypoints = waypoints'

\* after the waypoint:* event, route:calculating is emitted and the calculator is
\* invoked with the new list; the promise of the call awaits that calculation
C15_ThenCalculates ==
    /\ Types(emitted') = <<emitted'[1].type, "route:calculating">>
    /\ emitted'[2].waypointCount = Len(waypoints')
    /\ calcSeq' = calcSeq + 1
    /\ Len(pending') = Len(pending) + 1
    /\ pending'[Len(pending')].stamp = calcSeq'
    /\ pending'[Len(pending')].waypoints = waypoints'
    /\ step'.promise = "pending"

\* no calculator call is made and no route:calculating is emitted
C15_NoCalculation ==
    /\ CountOf(emitted', "route:calculating") = 0
    /\ calcSeq' = calcSeq
    /\ Len(pending') = Len(pending)
    /\ step'.promise = "resolved"

\* a calculation settles: the promise awaiting it resolves, and no promise resolves
\* in any other way while its calculation is in flight
C15_SettlesAfter ==
    /\ (step'.kind = "settle") = (Len(pending') < Len(pending))
    /\ step'.kind = "settle" => step'.promise = "resolved"

\* C15 (with the gate of recalculate() taken into account): on every successful
\* mutation the pre-mutation list is pushed to the history, the Store is mutated,
\* exactly one waypoint:* event carries the post-mutation list, and then, when
\* autoRecalculate is on and the post-mutation list has at least two waypoints,
\* route:calculating is emitted and the calculator invoked with the post-mutation
\* list, the promise of the operation staying pending until that calculation has
\* settled; otherwise no calculation is started
C15_EffectOrder ==
    [][ /\ C15_Mutated =>
             /\ C15_PushMutateEmit
             /\ IF autoRecalculate /\ Len(waypoints') >= 2
                    THEN C15_ThenCalculates
                    ELSE C15_NoCalculation
        /\ C15_SettlesAfter
      ]_vars

\* a successful mutation that started a calculation on a list different from the
\* one pushed to the history
C15_Witness ==
    /\ step.kind = "call"
    /\ step.promise = "pending"
    /\ lastCall.op \in MutatingOps
    /\ lastCall.ok
    /\ Len(emitted) = 2
    /\ pending # <<>>
    /\ pending[Len(pending)].waypoints = waypoints
    /\ history # <<>>
    /\ history[Len(history)].waypoints # waypoints

\* C15 as stated: whenever autoRecalculate is on, every successful mutation emits
\* route:calculating and invokes the calculator with the post-mutation list
C15_AlwaysCalculates ==
    [][ C15_Mutated =>
            /\ C15_PushMutateEmit
            /\ autoRecalculate => C15_ThenCalculates
      ]_vars

(***************************************************************************)
(* C16. EventBusImpl.emit calls the listeners synchronously, in            *)
(* registration order; a listener that throws neither prevents the         *)
(* listeners after it from being called nor makes emit throw.              *)
(***************************************************************************)
\* the entries emit itself called (not the emits nested in its listeners), in order
C16_TopLevel(log) ==
    LET top == SelectSeq(log, LAMBDA c : c.depth = 0)
    IN  [i \in 1..Len(top) |-> top[i].entry]

\* the position of an entry in the Set
C16_Position(ls, entry) == CHOOSE i \in 1..Len(ls) : ls[i] = entry

\* when emit returns: it has not thrown, it called listeners of the Set in their
\* insertion order, and every listener that was in the Set has been called
C16_EmitCallsAll ==
    [][ busCall' = "emit" =>
            LET top == C16_TopLevel(invoked')
            IN  /\ ~emitThrew'
                /\ \A i \in 1..Len(top) : setHas(listeners, top[i])
                /\ \A i \in 1..Len(top), j \in 1..Len(top) :
                      i < j => C16_Position(listeners, top[i]) < C16_Position(listeners, top[j])
                /\ \A i \in 1..Len(listeners) :
                      \E c \in 1..Len(invoked') : invoked'[c].entry = listeners[i]
      ]_vars

\* an emit whose first listener threw and that went on to call two more
C16_Witness ==
    /\ busCall = "emit"
    /\ ~emitThrew
    /\ Len(invoked) >= 3
    /\ invoked[1].entry.fn = "throws"
    /\ \A c \in 1..Len(invoked) : invoked[c].depth = 0

(***************************************************************************)
(* C17. A listener given to once() is invoked at most once over any        *)
(* sequence of emits, also when it throws and when it emits the same event *)
(* again from inside its invocation; and when the unsubscribe handle that  *)
(* once() returned is called before the first emit, it is never invoked.   *)
(***************************************************************************)
C17_OnceAtMostOnce ==
    \A k \in 1..Len(onceLog) :
        /\ onceLog[k].times <= 1
        /\ k \in cancelled => onceLog[k].times = 0

\* an emit has just run without calling a once() listener that emitted again from
\* inside its one invocation, nor a once() listener that threw in its one
\* invocation, nor one unsubscribed before any emit
C17_Witness ==
    /\ busCall = "emit"
    /\ invoked # <<>>
    /\ \E k \in 1..Len(onceLog) :
         /\ onceLog[k] = [fn |-> "reemits", times |-> 1]
         /\ \A c \in 1..Len(invoked) : invoked[c].entry.wrapper # k
    /\ \E k \in 1..Len(onceLog) :
         /\ onceLog[k] = [fn |-> "throws", times |-> 1]
         /\ \A c \in 1..Len(invoked) : invoked[c].entry.wrapper # k
    /\ \E k \in cancelled :
         /\ onceLog[k].times = 0
         /\ \A c \in 1..Len(invoked) : invoked[c].entry.wrapper # k

(***************************************************************************)
(* C18. With autoRecalculate false, no addWaypoint / insertWaypoint /      *)
(* removeWaypoint / updateWaypoint / reorderWaypoints / undo / redo        *)
(* invokes the calculator or emits route:calculating, and each leaves      *)
(* currentRoute and currentStats unchanged: what getRoute() and getStats() *)
(* return is after the call what it was before it.                         *)
(***************************************************************************)
C18_NoAutoLeavesRoute ==
    [][ (/\ ~autoRecalculate
         /\ step'.kind = "call"
         /\ lastCall'.op \in MutatingOps \cup {"undo", "redo"}) =>
            /\ calcSeq' = calcSeq
            /\ Len(pending') = Len(pending)
            /\ CountOf(emitted', "route:calculating") = 0
            /\ getStats' = getStats
            /\ getRoute' = getRoute
      ]_vars

(***************************************************************************)
(* C20. History snapshots are independent copies: the waypoint content of  *)
(* an entry is fixed when it is pushed; no later operation of the Store or *)
(* the Planner changes what an entry already captured contains, and        *)
(* restoring an entry with undo/redo and then mutating the Store does not  *)
(* change that entry.                                                      *)
(***************************************************************************)
\* the entries h2 of the history after a step are entries of the history h before
\* it, unchanged and in order, followed at most by one new entry that captured the
\* list as it was before the step
C20_KeptAsPushed(h, h2, before) ==
    \E a \in 1..(Len(h) + 1), b \in 0..Len(h) :
        \/ h2 = SubSeq(h, a, b)
        \/ /\ h2 # <<>>
           /\ SubSeq(h2, 1, Len(h2) - 1) = SubSeq(h, a, b)
           /\ h2[Len(h2)].waypoints = before

\* C20: over every step, whatever the operation, the entries that stay in the history
\* keep the content they were pushed with
C20_SnapshotsIndependent ==
    [][C20_KeptAsPushed(history, history', waypoints)]_vars

\* after an undo the Store was changed in place by addWaypoint or updateWaypoint:
\* the history still holds the restored entry and the snapshot just taken, both
\* different from the list the Store holds now
C20_Witness ==
    /\ step.kind = "call"
    /\ lastCall.op \in {"addWaypoint", "updateWaypoint"}
    /\ lastCall.ok
    /\ ~lastCall.atNewest
    /\ Len(history) >= 2
    /\ \A i \in 1..Len(history) : history[i].waypoints # waypoints
    /\ \A i \in 1..Len(history) : ~history[i].live

(***************************************************************************)
(* C21. When a calculation succeeds, currentRoute and currentStats are     *)
(* replaced together by the result and isCalculating() is false before any *)
(* completion event is emitted; then exactly one route:calculated is       *)
(* emitted, followed by exactly one stats:updated whose previousStats is   *)
(* the stats value held immediately before the replacement.                *)
(***************************************************************************)
C21_SuccessOrder ==
    [][ (step'.kind = "settle" /\ step'.ok) =>
            /\ \E i \in answered(pending) :
                 /\ pending[i].result.outcome = "ok"
                 /\ getRoute' = calculatedRoute(pending[i], pending[i].result.response)
                 /\ getStats' = pending[i].result.stats
            /\ step'.seen = [isCalculating |-> FALSE, getRoute |-> getRoute',
                             getStats |-> getStats']
            /\ isCalculating' = FALSE
            /\ Len(emitted') = 2
            /\ emitted'[1] = routeCalculated(getRoute', getStats')
            /\ emitted'[2] = statsUpdated(getStats', getStats)
      ]_vars

\* a calculation succeeded while stats of an earlier calculation were held:
\* stats:updated carries the earlier stats, and the listeners see the new ones
C21_Witness ==
    /\ step.kind = "settle"
    /\ step.ok
    /\ step.seen.getStats = getStats
    /\ ~isCalculating
    /\ Len(emitted) = 2
    /\ emitted[2].previousStats # Null
    /\ emitted[2].previousStats # getStats

(***************************************************************************)
(* C23. WaypointRepository.insert never fails: for every integer index i   *)
(* it places the new waypoint at position clamp(i, 0, count), increases    *)
(* count by exactly one and keeps the waypoints already there in their     *)
(* relative order; the returned waypoint's index is that clamped position. *)
(* Stated on every list the repository can hold: what insert makes of it,  *)
(* for every index argument.                                               *)
(***************************************************************************)
\* clamp(i, 0, count)
C23_Clamp(i, count) == IF i < 0 THEN 0 ELSE IF i > count THEN count ELSE i

\* a list without its element at 0-based position at
C23_Without(wps, at) ==
    [k \in 1..(Len(wps) - 1) |-> IF k <= at THEN wps[k] ELSE wps[k + 1]]

C23_InsertClamps ==
    \A c \in Coords, i \in RepoIndexArgs, n \in Names :
        LET at == C23_Clamp(i, Len(waypoints))
            after == insert(waypoints, nextId, c, i, n)
            returned == insertReturns(waypoints, nextId, c, i, n)
        IN  /\ Len(after) = Len(waypoints) + 1
            /\ after[at + 1].id = nextId
            /\ after[at + 1].longitude = c.longitude
            /\ after[at + 1].latitude = c.latitude
            /\ Content(C23_Without(after, at)) = Content(waypoints)
            /\ returned # Null
            /\ returned.id = nextId
            /\ returned.index = at

\* an insert has put the waypoint created last between two others
C23_Witness ==
    /\ repoCall.op = "insert"
    /\ repoCall.ok
    /\ Len(waypoints) = 3
    /\ waypoints[2].id = nextId - 1
    /\ waypoints[2].index = 1

(***************************************************************************)
(* C24. WaypointRepository.reorder(from, to) returns false and leaves the  *)
(* list unchanged when either index is outside [0, count-1]; otherwise it  *)
(* returns true, the waypoint formerly at position from is at position to, *)
(* all other waypoints keep their relative order, and the set of ids and   *)
(* the count are unchanged.  Stated on every list the repository can hold: *)
(* what reorder makes of it, for every pair of arguments.                  *)
(***************************************************************************)
\* the ids of a list
C24_Ids(wps) == {wps[k].id : k \in 1..Len(wps)}

C24_ReorderMoves ==
    \A from \in RepoIndexArgs, to \in RepoIndexArgs :
        LET inside == from \in 0..(Len(waypoints) - 1) /\ to \in 0..(Len(waypoints) - 1)
            after == reorder(waypoints, from, to)
            returned == reorderOk(waypoints, from, to)
        IN  /\ returned = inside
            /\ ~inside => after = waypoints
            /\ inside =>
                  /\ Content(after)[to + 1] = Content(waypoints)[from + 1]
                  /\ Content(C23_Without(after, to)) = Content(C23_Without(waypoints, from))
                  /\ C24_Ids(after) = C24_Ids(waypoints)
                  /\ Len(after) = Len(waypoints)

\* a reorder that returned true has left the waypoint created first behind the two
\* created after it
C24_Witness ==
    /\ repoCall.op = "reorder"
    /\ repoCall.ok
    /\ Len(waypoints) = 3
    /\ waypoints[1].id = 2
    /\ waypoints[2].id = 3
    /\ waypoints[3].id = 1

(***************************************************************************)
(* C25. WaypointRepository.remove(id) of an existing id returns that       *)
(* waypoint, decreases count by one and leaves the remaining waypoints in  *)
(* their original relative order, re-indexed 0..count-1; remove of an      *)
(* unknown id returns null and leaves the list unchanged.  Stated on every *)
(* list the repository can hold: what remove makes of it, for every id.    *)
(***************************************************************************)
C25_RemoveReindexes ==
    \A id \in RepoIdArgs :
        LET known == id \in C24_Ids(waypoints)
            after == remove(waypoints, id)
            returned == removeReturns(waypoints, id)
        IN  /\ ~known => (returned = Null /\ after = waypoints)
            /\ known =>
                  \E at \in 0..(Len(waypoints) - 1) :
                      /\ waypoints[at + 1].id = id
                      /\ returned = waypoints[at + 1]
                      /\ Len(after) = Len(waypoints) - 1
                      /\ Content(after) = Content(C23_Without(waypoints, at))
                      /\ \A k \in 1..Len(after) : after[k].index = k - 1

\* a remove that found its waypoint has left the first and the third waypoint
\* created, indexed 0 and 1
C25_Witness ==
    /\ repoCall.op = "remove"
    /\ repoCall.ok
    /\ Len(waypoints) = 2
    /\ waypoints[1].id = 1
    /\ waypoints[2].id = 3
    /\ waypoints[2].index = 1

(***************************************************************************)
(* C22. Off-route test: isOffRoute(point, line, threshold) is true exactly *)
(* when the distance from the point to the nearest point of the line is    *)
(* strictly greater than the threshold: false at equality, and false for a *)
(* line of fewer than 2 points.  RoutePlanner.isOffRoute returns false     *)
(* when there is no current route, and uses options.offRouteThreshold when *)
(* no threshold argument is given.                                         *)
(* The distance to the line is stated apart from the code: the least       *)
(* distance to any point that some segment of the line passes.  The        *)
(* distance computed lies at it; where it lies at the threshold, the point *)
(* is off the route exactly when the computed double is above it.          *)
(***************************************************************************)
C22_Passed(line) ==
    {y \in -60..60 : \E i \in 1..(Len(line) - 1) :
        /\ Min(line[i][2], line[i + 1][2]) <= y
        /\ y <= Max(line[i][2], line[i + 1][2])}

C22_Apart(a, b) == IF a >= b THEN a - b ELSE b - a

C22_Distance(point, line) ==
    CHOOSE d \in 0..120 :
        /\ \E y \in C22_Passed(line) : d = C22_Apart(point, y)
        /\ \A y \in C22_Passed(line) : d <= C22_Apart(point, y)

C22_Beyond(line, distance, threshold, nearest) ==
    /\ Len(line) >= 2
    /\ \/ distance > threshold
       \/ (distance = threshold /\ nearest.distance.ulps > 0)

C22_OffRouteStrictlyBeyond ==
    (probe # Null /\ probe.query = "isOffRoute") =>
        LET distance == C22_Distance(probe.point, probe.line)
        IN  /\ Len(probe.line) >= 2 =>
                   /\ answer.nearest # Null
                   /\ answer.nearest.distance.num = distance * answer.nearest.distance.den
            /\ answer.isOffRoute =
                   C22_Beyond(probe.line, distance,
                              IF probe.threshold = Undefined THEN DefaultThresholdMeters
                                                              ELSE probe.threshold.number,
                              answer.nearest)
            /\ answer.planner =
                   (/\ probe.hasRoute
                    /\ C22_Beyond(probe.line, distance,
                                  IF probe.threshold = Undefined THEN probe.option
                                                                  ELSE probe.threshold.number,
                                  answer.nearest))

\* a point whose computed distance from the current route is the double
\* options.offRouteThreshold, asked about with no threshold argument: not off the route
C22_Witness ==
    /\ probe # Null
    /\ probe.query = "isOffRoute"
    /\ probe.hasRoute
    /\ probe.threshold = Undefined
    /\ Len(probe.line) >= 2
    /\ C22_Distance(probe.point, probe.line) = probe.option
    /\ probe.option # DefaultThresholdMeters
    /\ answer.nearest # Null
    /\ Same(answer.nearest.distance, Exact(probe.option))
    /\ ~answer.planner

(***************************************************************************)
(* C26. Branching after undo: a HistoryManagerImpl.push made after one or  *)
(* more undo() calls (the cursor below the newest entry) discards the      *)
(* entries beyond the cursor before it appends: the new entry is the last  *)
(* one, what precedes it are entries from the cursor down, the cursor is   *)
(* on the new entry, canRedo() is false and redo() returns null.           *)
(***************************************************************************)
C26_Branches ==
    (Len(pushLog') > Len(pushLog) /\ canRedo(history, currentIndex)) =>
        LET kept == SubSeq(history', 1, Len(history') - 1)
        IN  /\ Len(history') >= 1
            /\ history'[Len(history')] = pushLog'[Len(pushLog')]
            /\ Len(kept) <= currentIndex + 1
            /\ kept = LastN(SubSeq(history, 1, currentIndex + 1), Len(kept))
            /\ currentIndex' = Len(history') - 1
            /\ ~canRedo(history', currentIndex')
            /\ redoEntry(history', currentIndex') = Null
            /\ redoIndex(history', currentIndex') = currentIndex'

C26_PushDiscardsRedo == [][C26_Branches]_vars

\* three pushes of which the second was undone before the third: the first and the
\* third are what is kept, the second is gone, and the cursor is on the third
C26_Witness ==
    /\ Len(pushLog) = 3
    /\ pushLog[2] # pushLog[1]
    /\ pushLog[2] # pushLog[3]
    /\ history = <<pushLog[1], pushLog[3]>>
    /\ currentIndex = 1
    /\ ~canRedo(history, currentIndex)

(***************************************************************************)
(* C27. Refused undo / redo: RoutePlanner.undo() when canUndo() is false,  *)
(* and RoutePlanner.redo() when canRedo() is false, return false and       *)
(* change nothing: the waypoint list, the history size and cursor and the  *)
(* current route and stats stay, no event is emitted and no calculation is *)
(* started.  When they return true, exactly one history:change event is    *)
(* emitted, and its canUndo / canRedo / historySize are the values of      *)
(* canUndo() / canRedo() / getHistorySize() after the move.                *)
(***************************************************************************)
\* a call that would be refused has no step that changes anything
C27_Refused ==
    /\ (~disposed /\ ~canUndo(currentIndex)) =>
           /\ undoEntry(history, currentIndex) = Null
           /\ undoIndex(currentIndex) = currentIndex
           /\ ~ENABLED (undo /\ vars' # vars)
    /\ (~disposed /\ ~canRedo(history, currentIndex)) =>
           /\ redoEntry(history, currentIndex) = Null
           /\ redoIndex(history, currentIndex) = currentIndex
           /\ ~ENABLED (redo /\ vars' # vars)

\* the history:change events among those a step emitted
C27_HistoryChanges(evs) == SelectSeq(evs, LAMBDA e : e.type = "history:change")

\* a call that did something was not refused, and announced the history as it left it
C27_Moved ==
    (calls' = calls + 1 /\ lastCall'.op \in {"undo", "redo"}) =>
        /\ lastCall'.ok
        /\ lastCall'.op = "undo" => canUndo(currentIndex)
        /\ lastCall'.op = "redo" => canRedo(history, currentIndex)
        /\ Len(C27_HistoryChanges(emitted')) = 1
        /\ LET e == C27_HistoryChanges(emitted')[1]
           IN  /\ e.action = lastCall'.op
               /\ e.canUndo = canUndo(currentIndex')
               /\ e.canRedo = canRedo(history', currentIndex')
               /\ e.historySize = getHistorySize'

C27_RefusedOrAnnounced == []C27_Refused /\ [][C27_Moved]_vars

\* an undo() that left the cursor on the oldest entry and said so: a further undo()
\* is refused, a redo() is not
C27_Witness ==
    /\ lastCall.op = "undo"
    /\ lastCall.ok
    /\ ~disposed
    /\ currentIndex = 0
    /\ ~canUndo(currentIndex)
    /\ canRedo(history, currentIndex)
    /\ Len(C27_HistoryChanges(emitted)) = 1
    /\ ~C27_HistoryChanges(emitted)[1].canUndo
    /\ C27_HistoryChanges(emitted)[1].canRedo

(***************************************************************************)
(* C28. History entries are created only by mutations: undo() and redo()   *)
(* never add, remove or alter history entries (getHistorySize() is         *)
(* unchanged, only the cursor moves), while every successful addWaypoint / *)
(* insertWaypoint / removeWaypoint / updateWaypoint / reorderWaypoints     *)
(* appends exactly one entry (before capacity trimming), tagged add / add  *)
(* / remove / update / reorder respectively and holding the list as it was *)
(* before the call.                                                        *)
(***************************************************************************)
C28_Tag(op) ==
    CASE op = "addWaypoint" -> "add"
      [] op = "insertWaypoint" -> "add"
      [] op = "removeWaypoint" -> "remove"
      [] op = "updateWaypoint" -> "update"
      [] op = "reorderWaypoints" -> "reorder"

C28_UndoRedoKeep ==
    (calls' = calls + 1 /\ lastCall'.op \in {"undo", "redo"}) =>
        /\ history' = history
        /\ getHistorySize' = getHistorySize
        /\ currentIndex' # currentIndex

C28_MutationAppends ==
    (calls' = calls + 1 /\ lastCall'.op \in MutatingOps /\ lastCall'.ok) =>
        LET size == Len(history')
            kept == SubSeq(history', 1, size - 1)
        IN  /\ size >= 1
            /\ size <= currentIndex + 2
            /\ kept = LastN(SubSeq(history, 1, currentIndex + 1), size - 1)
            /\ history'[size].action = C28_Tag(lastCall'.op)
            /\ history'[size].waypoints = waypoints

C28_OnlyMutationsRecord == [][C28_UndoRedoKeep /\ C28_MutationAppends]_vars

\* two entries, tagged add and remove, update or reorder, and an undo() that has
\* moved the cursor down from the second to the first
C28_Witness ==
    /\ lastCall.op = "undo"
    /\ lastCall.ok
    /\ getHistorySize = 2
    /\ history[1].action = "add"
    /\ history[2].action \in {"remove", "update", "reorder"}
    /\ history[2].waypoints # <<>>
    /\ currentIndex = 0

(***************************************************************************)
(* C29. Capacity: for every configured maxHistorySize >= 0, 0 included,    *)
(* the history never retains more than maxHistorySize entries:             *)
(* getHistorySize() <= maxHistorySize after every planner operation, in    *)
(* any sequence.                                                           *)
(* It does not hold for maxHistorySize = 0: push trims with                *)
(* slice(-maxSize), and slice(-0) is slice(0), the whole list.             *)
(***************************************************************************)
C29_WithinCapacity == getHistorySize <= maxSize

(***************************************************************************)
(* C30. clear(): pushes exactly one history entry (action clear, holding   *)
(* the list as it was before) when the Store was not empty and none when   *)
(* it was empty, empties the Store, sets currentRoute and currentStats to  *)
(* null before it returns, and emits exactly one route:cleared whose       *)
(* previousWaypointCount is the count before the call, also when the Store *)
(* was empty already; it starts no calculation.                            *)
(***************************************************************************)
C30_Cleared(evs) == SelectSeq(evs, LAMBDA e : e.type = "route:cleared")

C30_Clear ==
    (calls' = calls + 1 /\ lastCall'.op = "clear") =>
        /\ IF getWaypoints # <<>>
               THEN LET size == Len(history')
                    IN  /\ size >= 1
                        /\ size <= currentIndex + 2
                        /\ SubSeq(history', 1, size - 1) =
                               LastN(SubSeq(history, 1, currentIndex + 1), size - 1)
                        /\ history'[size].action = "clear"
                        /\ history'[size].waypoints = getWaypoints
                        /\ currentIndex' = size - 1
               ELSE /\ history' = history
                    /\ currentIndex' = currentIndex
        /\ getWaypoints' = <<>>
        /\ getRoute' = Null
        /\ getStats' = Null
        /\ Len(C30_Cleared(emitted')) = 1
        /\ C30_Cleared(emitted')[1].previousWaypointCount = Len(getWaypoints)
        /\ CountOf(emitted', "route:calculating") = 0
        /\ calcSeq' = calcSeq
        /\ Len(pending') = Len(pending)
        /\ isCalculating' = isCalculating
        /\ step'.promise = "resolved"

C30_ClearResets == [][C30_Clear]_vars

\* a clear() of an empty Store, made after a clear() that recorded a list of two: the
\* entry of the first is still the newest, and the event says 0
C30_Witness ==
    /\ lastCall.op = "clear"
    /\ getWaypoints = <<>>
    /\ getRoute = Null
    /\ Len(C30_Cleared(emitted)) = 1
    /\ C30_Cleared(emitted)[1].previousWaypointCount = 0
    /\ getHistorySize >= 1
    /\ history[getHistorySize].action = "clear"
    /\ Len(history[getHistorySize].waypoints) = 2
    /\ currentIndex = getHistorySize - 1

(***************************************************************************)
(* C31. One emit delivers the event exactly once to each listener that is  *)
(* registered at the moment emit is called: a listener unsubscribed during *)
(* the dispatch is still called, one added during the dispatch is not      *)
(* called until the next emit, and registering the same function twice     *)
(* with on() makes it run twice per emit.                                  *)
(* Stated for the last part, on every state with a listener registered by  *)
(* on(): what a second on() of that function and an emit make of it.  The  *)
(* listeners are a Set, where a second add of the same function is no      *)
(* change, so the function runs once.                                      *)
(***************************************************************************)
\* how many times emit itself calls the entry, on the Set ls
C31_Deliveries(ls, entry) ==
    LET top == C16_TopLevel(emit(ls, onceLog).log)
    IN  Cardinality({i \in 1..Len(top) : top[i] = entry})

C31_RegisteredTwiceRunsTwice ==
    \A fn \in PlainListeners :
        setHas(listeners, ListenerEntry(fn, 0)) =>
            C31_Deliveries(setAdd(listeners, ListenerEntry(fn, 0)), ListenerEntry(fn, 0)) = 2

(***************************************************************************)
(* C32. RouteCalculatorAdapter.calculate returns null without calling      *)
(* provider.getDirections when given fewer than 2 waypoints, returns null  *)
(* when the provider returns null, and otherwise returns the steps in      *)
(* provider order with index 0..n-1, stats with stepCount = the number of  *)
(* steps, waypointCount = the number of waypoints passed in and the        *)
(* distance and duration of the response, and bounds [min lon, min lat,    *)
(* max lon, max lat] over the geometry, [0, 0, 0, 0] for an empty one.     *)
(***************************************************************************)
\* b is the least (most = FALSE) or the greatest (most = TRUE) k-th component in g
C32_Extreme(b, g, k, most) ==
    /\ \E i \in 1..Len(g) : g[i][k] = b
    /\ \A i \in 1..Len(g) : IF most THEN g[i][k] <= b ELSE g[i][k] >= b

C32_Result(passed, response, result) ==
    LET n == Len(response.steps)
    IN  /\ Len(result.steps) = n
        /\ result.route.steps = result.steps
        /\ \A i \in 1..n :
              /\ result.steps[i].index = i - 1
              /\ result.steps[i].instruction = response.steps[i].instruction
              /\ result.steps[i].maneuverType = response.steps[i].maneuverType
              /\ result.steps[i].distanceMeters = response.steps[i].distanceMeters
              /\ result.steps[i].durationSeconds = response.steps[i].durationSeconds
              /\ result.steps[i].geometry = response.steps[i].geometry
        /\ result.stats.stepCount = n
        /\ result.stats.waypointCount = Len(passed)
        /\ result.stats.distanceMeters = response.distanceMeters
        /\ result.stats.durationSeconds = response.durationSeconds
        /\ IF response.geometry = <<>>
               THEN result.route.bounds = <<0, 0, 0, 0>>
               ELSE /\ C32_Extreme(result.route.bounds[1], response.geometry, 1, FALSE)
                    /\ C32_Extreme(result.route.bounds[2], response.geometry, 2, FALSE)
                    /\ C32_Extreme(result.route.bounds[3], response.geometry, 1, TRUE)
                    /\ C32_Extreme(result.route.bounds[4], response.geometry, 2, TRUE)

\* C32: for the calculate call that returned last, answer.passed being the waypoints
\* it was called with: the source was asked exactly when there were 2 or more; the
\* result is null for fewer than 2 and for a null response; and otherwise it has
\* the steps of the response in order with index 0..n-1, stepCount n,
\* waypointCount the number of waypoints passed in, the totals of the response and
\* the bounds of its geometry.  Violated: the count is read from the array after
\* the await, when the caller may have pushed onto it or popped from it.
C32_CalculateResult ==
    answer # Null =>
        /\ answer.asked = (Len(answer.passed) >= 2)
        /\ (Len(answer.passed) < 2 \/ answer.response = Null) => answer.result = Null
        /\ (Len(answer.passed) >= 2 /\ answer.response # Null) =>
               /\ answer.result # Null
               /\ C32_Result(answer.passed, answer.response, answer.result)

(***************************************************************************)
(* C33. calculateRemainingLength(positions, fromIndex, fromFraction) is 0  *)
(* when positions has fewer than 2 points or fromIndex >= length - 1; it   *)
(* is calculateLineLength(positions) for fromIndex 0 and fromFraction 0;   *)
(* for a valid segment i its value at (i, 1) is its value at (i + 1, 0);   *)
(* and it never increases as (fromIndex, fromFraction) advances along the  *)
(* line.  Stated for every fromIndex and fromFraction below, on the line   *)
(* and under the rounding of the query made on a planner with a route.     *)
(***************************************************************************)
C33_Indices == 0..3
C33_Fractions ==
    {Exact(0), Double(1, 4, 0), Double(1, 2, 0), Double(3, 4, 0), Exact(1)}

\* a <= b on doubles
C33_Le(a, b) == ~Less(b, a)

\* (i, f) is not after (j, g) along the line
C33_NotAfter(i, f, j, g) == i < j \/ (i = j /\ C33_Le(f, g))

C33_RemainingLength ==
    (probe # Null /\ probe.query = "getRemainingDistance" /\ probe.hasRoute) =>
        LET line == probe.line
            remaining(i, f) == calculateRemainingLength(probe.fl, line, i, f)
        IN  /\ \A i \in C33_Indices, f \in C33_Fractions :
                  (Len(line) < 2 \/ i >= Len(line) - 1) => Same(remaining(i, f), Exact(0))
            /\ Same(remaining(0, Exact(0)), calculateLineLength(probe.fl, line))
            /\ \A i \in C33_Indices :
                  i <= Len(line) - 2 =>
                      Same(remaining(i, Exact(1)), remaining(i + 1, Exact(0)))
            /\ \A i \in C33_Indices, j \in C33_Indices :
                  \A f \in C33_Fractions, g \in C33_Fractions :
                      C33_NotAfter(i, f, j, g) => C33_Le(remaining(j, g), remaining(i, f))
            /\ answer.remaining # Null =>
                  /\ C33_Le(answer.remaining, remaining(0, Exact(0)))
                  /\ C33_Le(Exact(0), answer.remaining)

\* a point next to the middle of the first of two segments of 2 m each, every
\* operation rounding up: the line is above 4 m long and above 3 m of it remain
C33_Witness ==
    /\ probe # Null
    /\ probe.query = "getRemainingDistance"
    /\ probe.hasRoute
    /\ Len(probe.line) = 3
    /\ Less(Exact(4), answer.length)
    /\ answer.length.num = 4 * answer.length.den
    /\ answer.nearest # Null
    /\ answer.nearest.segmentIndex = 0
    /\ answer.nearest.segmentFraction.num * 2 = answer.nearest.segmentFraction.den
    /\ answer.remaining # Null
    /\ answer.remaining.num = 3 * answer.remaining.den
    /\ Less(Exact(3), answer.remaining)
    /\ Less(answer.remaining, answer.length)

(***************************************************************************)
(* C34. findNearestPointOnLine returns null for fewer than 2 points, and   *)
(* otherwise a result whose distance is the least of the distances to the  *)
(* segments, whose segmentIndex is in [0, n - 2] and is the lowest index   *)
(* of a segment at that distance, and whose segmentFraction is in [0, 1],  *)
(* 0 for a segment of length zero.                                         *)
(* The distances to the segments are the ones nearestPointOnSegment        *)
(* computes for them.  Where they lie is stated apart from the code: as    *)
(* far as the point is outside the stretch between the two ends.           *)
(***************************************************************************)
\* the distance from the point to segment i (0-based) of the line
C34_ToSegment(point, line, i) ==
    LET lo == Min(line[i + 1][2], line[i + 2][2])
        hi == Max(line[i + 1][2], line[i + 2][2])
    IN  Max(0, Max(lo - point, point - hi))

C34_Nearest ==
    (probe # Null /\ probe.query = "isOffRoute") =>
        LET line == probe.line
            segments == segmentsOf(line)
            nearest == answer.nearest
            computed(i) == answer.segments[i + 1].distance
        IN  /\ (nearest = Null) = (Len(line) < 2)
            /\ \A i \in segments :
                  computed(i).num = C34_ToSegment(probe.point, line, i) * computed(i).den
            /\ nearest # Null =>
                  /\ nearest.segmentIndex \in segments
                  /\ nearest.distance = computed(nearest.segmentIndex)
                  /\ \A i \in segments :
                        /\ ~Less(computed(i), nearest.distance)
                        /\ i < nearest.segmentIndex => Less(nearest.distance, computed(i))
                  /\ nearest.segmentFraction.den > 0
                  /\ ~Less(nearest.segmentFraction, Exact(0))
                  /\ ~Less(Exact(1), nearest.segmentFraction)
                  /\ line[nearest.segmentIndex + 1] = line[nearest.segmentIndex + 2] =>
                         Same(nearest.segmentFraction, Exact(0))
                  /\ nearest.point.latitude =
                         Min(Max(probe.point,
                                 Min(line[nearest.segmentIndex + 1][2],
                                     line[nearest.segmentIndex + 2][2])),
                             Max(line[nearest.segmentIndex + 1][2],
                                 line[nearest.segmentIndex + 2][2]))

\* a point 1 m beyond the far end of a line of two segments, the first of length
\* zero and the second running back over 2 m: both are at one distance, the first is
\* named
C34_Witness ==
    /\ probe # Null
    /\ probe.query = "isOffRoute"
    /\ probe.line = <<PositionAt(2), PositionAt(2), PositionAt(0)>>
    /\ probe.point = 3
    /\ answer.nearest # Null
    /\ answer.nearest.distance.num = 1
    /\ answer.segments[1].distance = answer.segments[2].distance
    /\ answer.nearest.segmentIndex = 0
    /\ Same(answer.nearest.segmentFraction, Exact(0))
    /\ C34_ToSegment(probe.point, probe.line, 1) = 1

(***************************************************************************)
(* C35. Waypoint identity is stable and unique: in every reachable Store   *)
(* state no two waypoints share an id, and every waypoint that survives an *)
(* insert, remove, reorder, update, undo or redo keeps its id, name and    *)
(* createdAt; update changes only the longitude and latitude of the        *)
(* waypoint with the id, and changes nothing for an unknown id.            *)
(* Stated on every state of the Store, for that state and for the states   *)
(* one update or one setAll away from it; setAll is given a list of the    *)
(* argument set, or the Store's own list twice over.  Uniqueness does not  *)
(* hold: setAll copies whatever it is given, ids included.                 *)
(***************************************************************************)
C35_UniqueIds(wps) ==
    \A i \in 1..Len(wps), j \in 1..Len(wps) : i # j => wps[i].id # wps[j].id

\* every waypoint of after whose id is in before has the name and createdAt it has there
C35_Keeps(before, after) ==
    \A i \in 1..Len(before), j \in 1..Len(after) :
        after[j].id = before[i].id =>
            /\ after[j].name = before[i].name
            /\ after[j].createdAt = before[i].createdAt

C35_StableUniqueIds ==
    /\ C35_UniqueIds(getWaypoints)
    /\ \A id \in RepoIdArgs, c \in Coords :
          LET after == update(waypoints, id, c)
          IN  /\ Len(after) = Len(waypoints)
              /\ C35_Keeps(waypoints, after)
              /\ C35_UniqueIds(after)
              /\ \A i \in 1..Len(waypoints) :
                    IF waypoints[i].id = id
                        THEN after[i] = [waypoints[i] EXCEPT !.longitude = c.longitude,
                                                             !.latitude = c.latitude]
                        ELSE after[i] = waypoints[i]
    /\ \A given \in SetAllArgs \cup {waypoints \o waypoints} :
          /\ C35_Keeps(given, setAll(given))
          /\ C35_UniqueIds(setAll(given))

(***************************************************************************)
(* C36. Assuming the directions source eventually settles every request,   *)
(* every route:calculating event is eventually followed by exactly one     *)
(* route:calculated or route:error event for that same calculation, and    *)
(* the promise of the operation that started it eventually resolves, for   *)
(* every interleaving of further planner calls made in the meantime.       *)
(***************************************************************************)
\* the calculation with that stamp has been started and has not settled / has settled
C36_InFlight(stamp) == \E i \in 1..Len(pending) : pending[i].stamp = stamp
C36_Settled(stamp) == stamp <= calcSeq /\ ~C36_InFlight(stamp)

\* the completion events among those a step emitted
C36_Completions(evs) == CountOf(evs, "route:calculated") + CountOf(evs, "route:error")

\* a step starts at most one calculation, and then emits route:calculating once and
\* returns a pending promise; it completes at most one, and then emits exactly one
\* completion event and resolves the promise; a calculation that has settled stays so
C36_OneCompletion ==
    /\ calcSeq' \in {calcSeq, calcSeq + 1}
    /\ calcSeq' = calcSeq + 1 =>
          /\ \E i \in 1..Len(pending') : pending'[i].stamp = calcSeq + 1
          /\ CountOf(emitted', "route:calculating") = 1
          /\ step'.promise = "pending"
    /\ \A stamp \in 1..MaxCalcs :
          /\ C36_Settled(stamp) => C36_Settled(stamp)'
          /\ (C36_InFlight(stamp) /\ C36_Settled(stamp)') =>
                /\ C36_Completions(emitted') = 1
                /\ step'.kind = "settle"
                /\ step'.promise = "resolved"
                /\ \A other \in 1..MaxCalcs :
                      (other # stamp /\ C36_InFlight(other)) => C36_InFlight(other)'
    /\ (\A stamp \in 1..MaxCalcs : C36_InFlight(stamp) => C36_InFlight(stamp)') =>
          (emitted' # emitted => C36_Completions(emitted') = 0)

C36_EveryCalculationCompletes ==
    /\ [][C36_OneCompletion]_vars
    /\ \A stamp \in 1..MaxCalcs : C36_InFlight(stamp) ~> C36_Settled(stamp)

\* two calculations have been started and both have settled, one with a route and,
\* in the last step, one by a failure
C36_Witness ==
    /\ calcSeq = 2
    /\ pending = <<>>
    /\ C36_Settled(1)
    /\ C36_Settled(2)
    /\ step.kind = "settle"
    /\ step.promise = "resolved"
    /\ CountOf(emitted, "route:error") = 1
    /\ calculatedTotal = 1

(***************************************************************************)
(* C37. The calculating flag never sticks: in every state in which every   *)
(* calculator.calculate call the planner started has settled,              *)
(* isCalculating() is false, also after overlapping calculations, after    *)
(* failures, and after dispose() or clear() was called while a calculation *)
(* was in flight.  A call has settled for the planner when its await of    *)
(* the call has completed: pending holds the calls it still awaits, those  *)
(* the source has answered included.                                       *)
(***************************************************************************)
C37_FlagNeverSticks ==
    pending = <<>> => ~isCalculating

\* two calculations overlapped, dispose() was called meanwhile, and the last of
\* them has now failed: nothing is in flight and the flag is down
C37_Witness ==
    /\ calcSeq = 2
    /\ pending = <<>>
    /\ disposed
    /\ step.kind = "settle"
    /\ ~step.ok
    /\ lastCall.op = "dispose"
    /\ ~isCalculating

(***************************************************************************)
(* C38. Route and stats always exist together: in every state a caller or  *)
(* an event listener can observe, getRoute() is null if and only if        *)
(* getStats() is null, across clear, dispose, gated recalculation,         *)
(* successful and failed calculations and any interleaving of them.        *)
(***************************************************************************)
C38_RouteAndStatsTogether ==
    /\ (getRoute = Null) = (getStats = Null)
    /\ step.kind = "settle" => (step.seen.getRoute = Null) = (step.seen.getStats = Null)

\* a route and its stats are held though the Store has been emptied: a calculation
\* started before clear() completed after it
C38_Witness ==
    /\ getWaypoints = <<>>
    /\ lastCall.op = "clear"
    /\ step.kind = "settle"
    /\ step.ok
    /\ step.seen.getRoute # Null
    /\ step.seen.getStats # Null
    /\ getRoute # Null
    /\ getStats # Null

(***************************************************************************)
(* C39. The current Route is a frozen record of its calculation: from the  *)
(* moment a calculation completes until the route is replaced or cleared,  *)
(* getRoute().waypoints is content-equal to the waypoint list that         *)
(* calculation was invoked with, and getStats().waypointCount =            *)
(* getRoute().waypoints.length, whatever mutations of the Store happen in  *)
(* between.                                                                *)
(* As long as getRoute() returns the same object, its waypoints keep their *)
(* content, and their number is the one the stats give.  It does not hold: *)
(* the route's waypoints are the Store's own array.                        *)
(***************************************************************************)
C39_CountAgrees ==
    getRoute # Null => getStats.waypointCount = Len(getRoute.waypoints)

C39_SameWaypoints ==
    (getRoute # Null /\ getRoute' # Null /\ getRoute'.stamp = getRoute.stamp) =>
        Content(getRoute'.waypoints) = Content(getRoute.waypoints)

C39_RouteFrozen == []C39_CountAgrees /\ [][C39_SameWaypoints]_vars

(***************************************************************************)
(* C40. For a HistoryManagerImpl with maxSize >= 1, after any sequence of  *)
(* push / undo / redo / clear the cursor satisfies -1 <= cursor <=         *)
(* getSize() - 1, the cursor is -1 exactly when the history is empty,      *)
(* undo() moves exactly when cursor > 0 and redo() exactly when cursor <   *)
(* getSize() - 1, so every entry undo() or redo() returns is an existing   *)
(* entry, and a history of exactly one entry can be neither undone nor     *)
(* redone.                                                                 *)
(***************************************************************************)
C40_CursorInRange ==
    /\ -1 <= currentIndex
    /\ currentIndex <= getSize(history) - 1
    /\ (currentIndex = -1) = (getSize(history) = 0)
    /\ canUndo(currentIndex) = (currentIndex > 0)
    /\ canRedo(history, currentIndex) = (currentIndex < getSize(history) - 1)
    /\ (undoEntry(history, currentIndex) # Null) = (currentIndex > 0)
    /\ currentIndex > 0 =>
          /\ undoIndex(currentIndex) \in 0..(getSize(history) - 1)
          /\ undoEntry(history, currentIndex) = history[undoIndex(currentIndex) + 1]
    /\ (redoEntry(history, currentIndex) # Null) = (currentIndex < getSize(history) - 1)
    /\ currentIndex < getSize(history) - 1 =>
          /\ redoIndex(history, currentIndex) \in 0..(getSize(history) - 1)
          /\ redoEntry(history, currentIndex) = history[redoIndex(history, currentIndex) + 1]
    /\ hRet # Null => (currentIndex >= 0 /\ hRet = history[currentIndex + 1])
    /\ getSize(history) = 1 =>
          /\ undoEntry(history, currentIndex) = Null
          /\ redoEntry(history, currentIndex) = Null
          /\ undoIndex(currentIndex) = currentIndex
          /\ redoIndex(history, currentIndex) = currentIndex

\* a history of exactly one entry with more than one push behind it (the others
\* were evicted or cleared): neither undo() nor redo() can move
C40_Witness ==
    /\ getSize(history) = 1
    /\ Len(pushLog) >= 2
    /\ currentIndex = 0
    /\ hPhase = "mixed"
    /\ hRet = Null
    /\ ~canUndo(currentIndex)
    /\ ~canRedo(history, currentIndex)

==============================================================================
